------------------------ MODULE TransferDescriptors ------------------------
(***************************************************************************)
(* The buffers of one pipe, seen from inside: the transfer descriptor list *)
(* of each buffer, written by _buffer_fill, handed to the channel by       *)
(* _buffer_exec, continued by _buffer_check_done, executed by the          *)
(* controller, and read back by _buffer_parse.                             *)
(*                                                                         *)
(* PipeBuffers has the queues, the ring and the handlers and leaves the    *)
(* descriptors out; here the ring is two buffers that are filled, executed *)
(* and parsed in turn, and what matters is which bytes they describe.      *)
(*                                                                         *)
(* A descriptor points at bytes off .. off + len - 1 of the data buffer of *)
(* the IRP.  The controller is external: it moves bytes, writes the bytes  *)
(* that remain, and clears the active bit.                                 *)
(***************************************************************************)
EXTENDS EpChar, Sequences, FiniteSets

CONSTANTS
    Endpoint,       \* endpoints a pipe may be allocated for
    PipeIdx,        \* how many pipes the port may have before this one
    FrameNum,       \* frame numbers that may be read (HFNUM)
    Request,        \* requests a client may enqueue
    MaxRequests     \* bound on the requests of a run

\* An isochronous bInterval of 0 has no period, for the shift is undefined; so is
\* the division by the packet size of an interrupt endpoint, if that is 0.
Endpoint_t ==
    {ep \in [type : TransferType, is_in : BOOLEAN, mps : Nat, bInterval : Nat, is_default : BOOLEAN] :
        /\ ep.type = "ISOCHRONOUS" => ep.bInterval > 0
        /\ ep.type = "INTR" => ep.mps > 0}

Request_t ==
    [type : TransferType, num_bytes : Nat, data_in : BOOLEAN, zero_pack : BOOLEAN, packets : Seq(Nat)]

ASSUME TransferAssumption ==
    /\ Endpoint \subseteq Endpoint_t
    /\ Request \subseteq Request_t
    /\ PipeIdx \subseteq Nat
    /\ FrameNum \subseteq Nat

VARIABLES
    ep_char,        \* the endpoint characteristics of the pipe
    buffers,        \* the two buffers
    wr_idx,         \* the next buffer to fill
    rd_idx,         \* the next buffer to execute
    fr_idx,         \* the next buffer to parse
    chan,           \* the channel
    requests,       \* how many requests were filled
    lead,           \* history: how far ahead the stream starts that this step began
    done            \* history: the IRP that this step parsed

vars == <<ep_char, buffers, wr_idx, rd_idx, fr_idx, chan, requests, lead, done>>

Buf == 0 .. 1

SETUP_SIZE == 8

XFER_LIST_LEN_CTRL == 3
XFER_LIST_LEN_BULK == 2
XFER_LIST_LEN_INTR == 32
XFER_LIST_LEN_ISOC == 32

ListLen(type) ==
    CASE type = "CTRL" -> XFER_LIST_LEN_CTRL
      [] type = "BULK" -> XFER_LIST_LEN_BULK
      [] type = "INTR" -> XFER_LIST_LEN_INTR
      [] type = "ISOCHRONOUS" -> XFER_LIST_LEN_ISOC

\* A cleared descriptor.
NoDesc == [off |-> 0, len |-> 0, setup |-> FALSE, in |-> FALSE, hoc |-> FALSE,
           active |-> FALSE, rem |-> 0]

\* usbh_hal_xfer_desc_fill.
Desc(off, len, flags) ==
    [off |-> off, len |-> len, setup |-> "SETUP" \in flags, in |-> "IN" \in flags,
     hoc |-> "HOC" \in flags, active |-> TRUE, rem |-> 0]

InFlag(is_in) == IF is_in THEN {"IN"} ELSE {}

\* The union of the flags of dma_buffer_block_t, all zero.
NoFlags == [data_stg_in |-> FALSE, data_stg_skip |-> FALSE, cur_stg |-> 0,
            zero_len_packet |-> FALSE, num_qtds |-> 0,
            irp_start_idx |-> 0, next_irp_start_idx |-> 0]

NoRequest == [type |-> "CTRL", num_bytes |-> 0, data_in |-> FALSE, zero_pack |-> FALSE, packets |-> << >>]

\* state is "free", "filled", "done" or "error"; moved is a history of the bytes
\* the controller moved, packet by packet, and skipped of the packets it did not.
NewBuffer(list) ==
    [state |-> "free", irp |-> NoRequest, list |-> list, flags |-> NoFlags,
     stop_idx |-> 0, moved |-> << >>, skipped |-> {}]

NoChan == [active |-> FALSE, dir_in |-> FALSE, pid |-> 0, start |-> 0, len |-> 0]

Nobody == [result |-> "NONE", irp |-> NoRequest, actual_num_bytes |-> 0, actual |-> << >>,
           moved |-> << >>, skipped |-> {}]

Init ==
    /\ \E ep \in Endpoint, idx \in PipeIdx :
          /\ PipeAllocCheckArgs(ep, "FULL", "FULL", "BALANCED")
          /\ ep_char = SetEpChar(ep, "FULL", idx, XFER_LIST_LEN_ISOC)
    /\ buffers = [b \in Buf |-> NewBuffer([i \in 0 .. ListLen(ep_char.type) - 1 |-> NoDesc])]
    /\ wr_idx = 0 /\ rd_idx = 0 /\ fr_idx = 0
    /\ chan = NoChan
    /\ requests = 0
    /\ lead = 0
    /\ done = Nobody

-----------------------------------------------------------------------------
(* _buffer_fill *)

Total(lengths) ==
    LET sum[k \in 0 .. Len(lengths)] == IF k = 0 THEN 0 ELSE sum[k - 1] + lengths[k]
    IN  sum

\* The requests that satisfy the assertions of the fill functions.
Fits(irp) ==
    /\ irp.type = ep_char.type
    /\ irp.type = "INTR" =>
          /\ irp.num_bytes <= XFER_LIST_LEN_INTR * ep_char.mps
          /\ ep_char.is_in => irp.num_bytes % ep_char.mps = 0
    /\ irp.type = "ISOCHRONOUS" =>
          /\ ep_char.interval > 0
          /\ Len(irp.packets) * ep_char.interval <= XFER_LIST_LEN_ISOC

\* Those among them that get no descriptor at all: an interrupt transfer of 0 bytes,
\* whose "last descriptor" is written at index -1, outside of the list, and an
\* isochronous one of 0 packets.
Empty(irp) ==
    \/ irp.type = "INTR" /\ irp.num_bytes = 0
    \/ irp.type = "ISOCHRONOUS" /\ irp.packets = << >>

FillCtrl(buffer, irp) ==
    LET skip == irp.num_bytes = 0
        status_in == ~(irp.data_in /\ ~skip)
    IN  [buffer EXCEPT
            !.list = [@ EXCEPT
                ![0] = Desc(0, SETUP_SIZE, {"SETUP", "HOC"}),
                ![1] = IF skip THEN NoDesc
                       ELSE Desc(SETUP_SIZE, irp.num_bytes, InFlag(irp.data_in) \union {"HOC"}),
                ![2] = Desc(0, 0, InFlag(status_in) \union {"HOC"})],
            !.flags = [@ EXCEPT !.data_stg_in = irp.data_in,
                                !.data_stg_skip = skip,
                                !.cur_stg = 0]]

\* The flag that makes the channel run both descriptors is set for IN only.
FillBulk(buffer, irp) ==
    LET zlp == ~ep_char.is_in /\ irp.zero_pack
        first == Desc(0, irp.num_bytes,
                      InFlag(ep_char.is_in) \union IF zlp THEN {} ELSE {"HOC"})
    IN  [buffer EXCEPT
            !.list = [@ EXCEPT ![0] = first, ![1] = IF zlp THEN Desc(0, 0, {"HOC"}) ELSE buffer.list[1]],
            !.flags.zero_len_packet = ep_char.is_in /\ irp.zero_pack]

\* As FillIntr, with floor division also for a transfer with a short last packet.
FillIntrFloor(buffer, irp) ==
    LET mps == ep_char.mps
        num_qtds == irp.num_bytes \div mps
        At(i) == IF i < num_qtds - 1 THEN Desc(i * mps, mps, InFlag(ep_char.is_in))
                 ELSE Desc(i * mps, irp.num_bytes - i * mps, InFlag(ep_char.is_in) \union {"HOC"})
    IN  [buffer EXCEPT
            !.list = [i \in DOMAIN @ |-> IF i < num_qtds THEN At(i) ELSE @[i]],
            !.flags.num_qtds = num_qtds]

\* One descriptor for each packet; a last short packet takes one of its own.
FillIntr(buffer, irp) ==
    LET mps == ep_char.mps
        num_qtds == (irp.num_bytes + mps - 1) \div mps
        At(i) == IF i < num_qtds - 1 THEN Desc(i * mps, mps, InFlag(ep_char.is_in))
                 ELSE Desc(i * mps, irp.num_bytes - i * mps, InFlag(ep_char.is_in) \union {"HOC"})
    IN  [buffer EXCEPT
            !.list = [i \in DOMAIN @ |-> IF i < num_qtds THEN At(i) ELSE @[i]],
            !.flags.num_qtds = num_qtds]

\* Where descriptor i of the list lies behind start, in frames.
Behind(start, i) == (i - start) % XFER_LIST_LEN_ISOC

\* Packet k is put interval * (k - 1) frames after start; the descriptors of the
\* frames between two packets are cleared.
FillIsoc(buffer, irp, start) ==
    LET n == Len(irp.packets)
        interval == ep_char.interval
        off == Total(irp.packets)
        At(k) == Desc(off[k - 1], irp.packets[k],
                      InFlag(ep_char.is_in) \union IF k = n THEN {"HOC"} ELSE {})
    IN  [buffer EXCEPT
            !.list = [i \in DOMAIN @ |->
                IF Behind(start, i) >= n * interval THEN @[i]
                ELSE IF Behind(start, i) % interval # 0 THEN NoDesc
                ELSE At(Behind(start, i) \div interval + 1)],
            !.flags = [@ EXCEPT !.num_qtds = n * interval,
                                !.irp_start_idx = start,
                                !.next_irp_start_idx = (start + n * interval) % XFER_LIST_LEN_ISOC]]

\* As FreshStart, with a test that forgets the two frames.
FreshStartHalfInterval(interval, offset, cur_frame_num) ==
    LET cur == (cur_frame_num - offset) % XFER_LIST_LEN_ISOC
        next == (cur \div interval) * interval + interval
    IN  IF next - cur > interval \div 2
        THEN (next + offset) % XFER_LIST_LEN_ISOC
        ELSE (next + interval + offset) % XFER_LIST_LEN_ISOC

\* The first index of a stream: the next scheduled frame that is more than half
\* an interval, and at least two frames, away; or the one after it.
FreshStart(interval, offset, cur_frame_num) ==
    LET cur == (cur_frame_num - offset) % XFER_LIST_LEN_ISOC
        next == (cur \div interval) * interval + interval
    IN  IF next - cur > interval \div 2 /\ next - cur >= 2
        THEN (next + offset) % XFER_LIST_LEN_ISOC
        ELSE (next + interval + offset) % XFER_LIST_LEN_ISOC

\* No buffer is filled and waits, or executes: buffer_num_to_exec = 0.
NothingToExec == \A b \in Buf : buffers[b].state # "filled"

\* As StartIdx, with the flags of the wrong buffer.
StartIdxOfSelf(cur_frame_num) ==
    IF NothingToExec
    THEN FreshStart(ep_char.interval, ep_char.phase_offset_frames, cur_frame_num)
    ELSE buffers[wr_idx].flags.next_irp_start_idx

\* A buffer continues the stream of the one before it.
StartIdx(cur_frame_num) ==
    IF NothingToExec
    THEN FreshStart(ep_char.interval, ep_char.phase_offset_frames, cur_frame_num)
    ELSE buffers[1 - wr_idx].flags.next_irp_start_idx

FilledWith(buffer, irp, start) ==
    CASE ep_char.type = "CTRL" -> FillCtrl(buffer, irp)
      [] ep_char.type = "BULK" -> FillBulk(buffer, irp)
      [] ep_char.type = "INTR" -> FillIntr(buffer, irp)
      [] ep_char.type = "ISOCHRONOUS" -> FillIsoc(buffer, irp, start)

\* The frame number counts only for the first buffer of an isochronous stream.
StartIndexes ==
    IF ep_char.type = "ISOCHRONOUS"
    THEN {[start |-> StartIdx(f), ahead |-> IF NothingToExec THEN Behind(f, StartIdx(f)) ELSE 0] :
            f \in FrameNum}
    ELSE {[start |-> 0, ahead |-> 0]}

Fill ==
    /\ requests < MaxRequests
    /\ requests' = requests + 1
    /\ buffers[wr_idx].state = "free"
    /\ \E irp \in Request, at \in StartIndexes :
          /\ Fits(irp)
          /\ buffers' = [buffers EXCEPT
                ![wr_idx] = [FilledWith(@, irp, at.start) EXCEPT !.state = "filled", !.irp = irp]]
          /\ lead' = at.ahead
    /\ wr_idx' = 1 - wr_idx
    /\ done' = Nobody
    /\ UNCHANGED <<ep_char, rd_idx, fr_idx, chan>>

-----------------------------------------------------------------------------
(* _buffer_exec and _buffer_check_done *)

Activate(dir_in, pid, start, len) ==
    chan' = [active |-> TRUE, dir_in |-> dir_in, pid |-> pid, start |-> start, len |-> len]

\* Where the channel starts and how many descriptors it may run.  The direction
\* and the first PID of a pipe that is not a control pipe are set when it is
\* allocated and kept by the HAL.
ExecStart(flags) == IF ep_char.type = "ISOCHRONOUS" THEN flags.irp_start_idx ELSE 0

ExecLen(flags) ==
    CASE ep_char.type = "CTRL" -> XFER_LIST_LEN_CTRL
      [] ep_char.type = "ISOCHRONOUS" -> XFER_LIST_LEN_ISOC
      [] ep_char.type = "BULK" -> IF flags.zero_len_packet THEN XFER_LIST_LEN_BULK ELSE 1
      [] ep_char.type = "INTR" -> flags.num_qtds

Exec ==
    LET flags == buffers[rd_idx].flags IN
    /\ ~chan.active
    /\ buffers[rd_idx].state = "filled"
    /\ Activate(ep_char.type # "CTRL" /\ ep_char.is_in, 0, ExecStart(flags), ExecLen(flags))
    /\ UNCHANGED <<ep_char, buffers, wr_idx, rd_idx, fr_idx, requests>>
    /\ lead' = 0 /\ done' = Nobody

\* The stage after the one that is over.
NextStage(flags) == IF flags.cur_stg = 0 /\ ~flags.data_stg_skip THEN 1 ELSE 2

\* As NextDir, with the direction of the data stage kept for the status stage.
NextDirSame(flags) == IF flags.cur_stg = 0 /\ flags.data_stg_skip THEN TRUE ELSE flags.data_stg_in

NextDir(flags) ==
    IF flags.cur_stg = 0
    THEN IF flags.data_stg_skip THEN TRUE ELSE flags.data_stg_in
    ELSE ~flags.data_stg_in

-----------------------------------------------------------------------------
(* The controller.  It runs descriptors from chan.start, in the order of the *)
(* list, which is a ring for isochronous transfers, until it has run one    *)
(* with HOC, or chan.len of them, or an IN packet was short.                 *)

\* The list indexes it meets, in order.
Run(list, start, len) ==
    LET At(k) == (start + k - 1) % ListLen(ep_char.type)
        stops == {k \in 1 .. len : list[At(k)].hoc}
        n == IF stops = {} THEN len ELSE CHOOSE k \in stops : \A l \in stops : k <= l
    IN  [k \in 1 .. n |-> At(k)]

\* Those that move a packet, in the same order.
Packets(list, start, len) ==
    LET run == Run(list, start, len)
        live == {k \in DOMAIN run : list[run[k]].active}
        Rank(k) == Cardinality({l \in live : l <= k})
    IN  [n \in 1 .. Cardinality(live) |-> run[CHOOSE k \in live : Rank(k) = n]]

\* The run comes to an end: it has a descriptor, and the ring of an isochronous
\* list has one with HOC.
Ends(list, start, len) ==
    /\ Packets(list, start, len) # << >>
    /\ ep_char.type = "ISOCHRONOUS" => \E i \in DOMAIN list : list[i].hoc

\* How many bytes of each packet of a run moved, and which packets found no frame.
Moved(moved, skipped) == [moved |-> moved, skipped |-> skipped]

\* One isochronous packet is short, or skipped.
IsocShort(full) ==
    {Moved([full EXCEPT ![k] = 0], {}) : k \in {k \in DOMAIN full : ep_char.is_in}} \union
    {Moved([full EXCEPT ![k] = 0], {k}) : k \in DOMAIN full}

\* A short packet ends an interrupt IN transfer.
IntrShort(full) ==
    UNION {{Moved(SubSeq([full EXCEPT ![k] = m], 1, k), {}) : m \in 0 .. ep_char.mps - 1} :
              k \in DOMAIN full}

\* As it ends a bulk IN transfer, or the data stage of a control transfer.
OneShort(full) == {Moved([full EXCEPT ![1] = m], {}) : m \in 0 .. full[1]}

\* The outcomes of a run over the descriptors idx.
Outcome(list, idx) ==
    LET full == [k \in 1 .. Len(idx) |-> list[idx[k]].len] IN
    {Moved(full, {})} \union
        CASE ep_char.type = "ISOCHRONOUS" -> IsocShort(full)
          [] ep_char.type = "INTR" /\ ep_char.is_in -> IntrShort(full)
          [] ep_char.type \in {"CTRL", "BULK"} /\ chan.dir_in -> OneShort(full)
          [] OTHER -> {}

\* The list after the run: an executed descriptor is inactive and says how many
\* bytes remain, one without a frame stays active.  An isochronous OUT packet
\* leaves none (the assertion of _buffer_parse_isoc).
Executed(list, idx, out) ==
    [i \in DOMAIN list |->
        IF \E k \in 1 .. Len(out.moved) : idx[k] = i
        THEN LET k == CHOOSE k \in 1 .. Len(out.moved) : idx[k] = i IN
             [list[i] EXCEPT !.active = k \in out.skipped,
                             !.rem = IF ep_char.type = "ISOCHRONOUS" /\ ~ep_char.is_in THEN 0
                                     ELSE @ + list[i].len - out.moved[k]]
        ELSE list[i]]

\* usbh_hal_chan_get_qtd_idx: the descriptor after the last one that ran; it is
\* back at 0 when the list has ended.
StopIdx(list, idx, out) ==
    LET last == idx[Len(out.moved)] IN
    IF list[last].hoc THEN 0 ELSE last + 1

\* The interrupt that ends a run: the last one completes the buffer
\* (_buffer_check_done, _buffer_done), an earlier stage starts the next one.
Complete ==
    LET buffer == buffers[rd_idx]
        idx == Packets(buffer.list, chan.start, chan.len)
    IN  /\ chan.active
        /\ Ends(buffer.list, chan.start, chan.len)
        /\ \E out \in Outcome(buffer.list, idx) :
              LET ran == [buffer EXCEPT !.list = Executed(@, idx, out),
                                        !.moved = @ \o out.moved,
                                        !.skipped = out.skipped]
              IN  IF ep_char.type = "CTRL" /\ buffer.flags.cur_stg < 2
                  THEN LET stg == NextStage(buffer.flags) IN
                       /\ buffers' = [buffers EXCEPT ![rd_idx] = [ran EXCEPT !.flags.cur_stg = stg]]
                       /\ Activate(NextDir(buffer.flags), 1, stg, XFER_LIST_LEN_CTRL)
                       /\ UNCHANGED rd_idx
                  ELSE /\ buffers' = [buffers EXCEPT ![rd_idx] =
                              [ran EXCEPT !.state = "done",
                                          !.stop_idx = StopIdx(buffer.list, idx, out)]]
                       /\ chan' = NoChan
                       /\ rd_idx' = 1 - rd_idx
        /\ UNCHANGED <<ep_char, wr_idx, fr_idx, requests>>
        /\ lead' = 0 /\ done' = Nobody

\* The transfer ends with an error, or the buffer is flushed (_buffer_done_error):
\* the descriptors stay as they are.
Fail ==
    /\ buffers[rd_idx].state = "filled"
    /\ buffers' = [buffers EXCEPT ![rd_idx].state = "error"]
    /\ chan' = NoChan
    /\ rd_idx' = 1 - rd_idx
    /\ UNCHANGED <<ep_char, wr_idx, fr_idx, requests>>
    /\ lead' = 0 /\ done' = Nobody

-----------------------------------------------------------------------------
(* _buffer_parse *)

\* actual_num_bytes of a control, bulk or interrupt transfer.
ActualCtrl(buffer) ==
    IF buffer.flags.data_stg_skip THEN 0 ELSE buffer.irp.num_bytes - buffer.list[1].rem

\* As ActualBulk, for a transfer that is never short.
ActualBulkAll(buffer) == buffer.irp.num_bytes

ActualBulk(buffer) == buffer.irp.num_bytes - buffer.list[0].rem

\* stop_idx - 1 full packets came before a short one that is not the last; the
\* code counts mps * stop_idx - 2 bytes for them.
ActualIntr(buffer) ==
    LET mps == ep_char.mps IN
    IF ~ep_char.is_in THEN buffer.irp.num_bytes
    ELSE IF buffer.stop_idx > 0
    THEN (mps * buffer.stop_idx - 2) + (mps - buffer.list[buffer.stop_idx - 1].rem)
    ELSE buffer.irp.num_bytes - buffer.list[buffer.flags.num_qtds - 1].rem

Actual(buffer) ==
    CASE ep_char.type = "CTRL" -> ActualCtrl(buffer)
      [] ep_char.type = "BULK" -> ActualBulk(buffer)
      [] ep_char.type = "INTR" -> ActualIntr(buffer)
      [] ep_char.type = "ISOCHRONOUS" -> 0      \* not written

\* The descriptor of packet k.
PacketIdx(buffer, k) ==
    (buffer.flags.irp_start_idx + (k - 1) * ep_char.interval) % XFER_LIST_LEN_INTR

\* Isochronous descriptors are cleared one by one; the memset that should clear
\* the list of the other types fills the first descriptor with the list length.
Cleared(buffer) ==
    IF ep_char.type = "ISOCHRONOUS"
    THEN [i \in DOMAIN buffer.list |->
            IF \E k \in 1 .. Len(buffer.irp.packets) : PacketIdx(buffer, k) = i
            THEN NoDesc ELSE buffer.list[i]]
    ELSE [buffer.list EXCEPT ![0] = [NoDesc EXCEPT !.off = -1, !.active = FALSE]]

Parse ==
    LET buffer == buffers[fr_idx]
        packets == IF ep_char.type = "ISOCHRONOUS" THEN 1 .. Len(buffer.irp.packets) ELSE {}
    IN  /\ buffer.state \in {"done", "error"}
        /\ IF buffer.state = "error"
           THEN /\ done' = [Nobody EXCEPT !.result = "error"]
                /\ buffers' = [buffers EXCEPT ![fr_idx] = NewBuffer(buffer.list)]
           ELSE /\ done' = [result |-> "done",
                            irp |-> buffer.irp,
                            actual_num_bytes |-> Actual(buffer),
                            actual |-> [k \in packets |-> buffer.irp.packets[k]
                                            - buffer.list[PacketIdx(buffer, k)].rem],
                            moved |-> buffer.moved,
                            skipped |-> {k \in packets : buffer.list[PacketIdx(buffer, k)].active}]
                /\ buffers' = [buffers EXCEPT ![fr_idx] = NewBuffer(Cleared(buffer))]
        /\ fr_idx' = 1 - fr_idx
        /\ lead' = 0
        /\ UNCHANGED <<ep_char, wr_idx, rd_idx, chan, requests>>

Next == Fill \/ Exec \/ Complete \/ Fail \/ Parse

Spec == Init /\ [][Next]_vars

=============================================================================
