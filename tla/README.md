# A formal model of the ESP32-S2 USB host library

This directory models the library in TLA+: the host controller driver
(`src/src/hcd.c`), the tasks of the port and the pipes above it (`port.cpp`,
`pipe.cpp`), the CDC and mouse class drivers (`cdchost.cpp`, `mousepipe.cpp`) and
the two parsers they use. TLC checks the models on small instances; TLAPS proves
the main safety properties of the driver and its two refinements for any number
of pipes, IRPs and buffers, those of its installation and allocations for any
tasks, pipes and channels, of its descriptor lists for any endpoints and requests,
of the port of the host layer, and of the walk over a configuration.

## The system

| Component | State it keeps | Operations | What is hard | What makes it correct |
|---|---|---|---|---|
| Pipe buffers and IRP queues (`hcd.c`) | pending and done queues, two buffers, three counters, three 1-bit indexes, `buffer_is_executing`, the IRP's state flag | fill, execute, complete, parse, flush, retire | an interrupt and four commands work on the same ring; statuses are computed late from flags stored early | counters, indexes and buffers agree; every IRP comes back once, in order, with the status of what befell it |
| Pipes (`hcd.c`) | state, last event, `waiting_xfer_done`, `paused`, `pipe_cmd_processing`, `is_active`, the waiting task | alloc, free, enqueue, dequeue, abort, commands, channel interrupt | a command releases `hcd_lock` while it waits; the interrupt, the port and the client act meanwhile | a command returns, and finds the pipe stopped; an IRP has one owner; an interrupt finds its transfer |
| Port (`hcd.c`) | state, last event, flags, the two pipe lists, the waiting task, `port_mux` | power, reset, suspend, resume, disable, event handling, recovery, port interrupt | delays and waits inside commands, the device lost at any of them, callbacks with the lock released | pipes are invalidated when the device is lost, never while one is enabled; an operation returns |
| Installation, port initialisation (`hcd.c`) | `s_hcd_obj`, `initialized` | install, uninstall, init, deinit | failure of one allocation of several | no half-installed driver |
| Transfer descriptors, endpoint characteristics (`hcd.c`) | the descriptor lists | `_buffer_fill_*`, `_buffer_parse_*`, `pipe_alloc_check_args`, `pipe_set_ep_char` | index and length arithmetic at its limits | the bytes reported are the bytes transferred |
| Host port task (`port.cpp`) | event queue of five, control pipe | port task, recovery after a disconnection | stale messages, results ignored | the port works again after a disconnection |
| Host pipe task (`pipe.cpp`) | event queue of five per pipe, IRPs | pipe task, enumeration, control requests | dropped messages, one dequeue per message, a blocking callback | every IRP is freed once; the enumeration ends |
| CDC and mouse drivers (`cdchost.cpp`, `mousepipe.cpp`) | their endpoint pipes | callbacks, re-arming the IN pipe | deletion of pipes on disconnection | pipes deleted once |
| Configuration and HID parsers (`configparse.cpp`, `parse_hid.cpp`) | an offset, item registers | one pass over a descriptor | 8-bit offsets, lengths from the device | they stop, inside the descriptor |

The layers call downwards (`USBHostPort`, `USBHostPipe` → `hcd_*`). Upwards
there are callbacks: from the interrupt (`port_callback`, `pipeCallback` in an
ISR, which post to queues) and from the invalidation of the pipes (in the task
that handles the port event). Inside the driver three kinds of actors share one
object under `hcd_lock`: client tasks, the task that runs port operations, and
the interrupt.

## Modules

The driver:

| Module | Models | Correspondence |
|---|---|---|
| `PipeBuffers` | the data of a `pipe_t` and the functions that move IRPs through it | a pipe is a record with the fields of the struct; each C function is an operator from record to record (`BufferFill` is `_buffer_fill`, and so on) |
| `HcdPipe` | API calls on pipes and IRPs, the channel interrupt | one action per stretch of code under `hcd_lock`; `PipeCommand` and `PipeCommandReturn` are the two halves of a command that waits |
| `HcdPort` | the port: interrupt, commands, events, recovery; `Init`, `Next`, `Spec` of the driver; the safety properties | `port_op` is the place at which a port operation has released `hcd_lock`: a delay, a wait, or a callback of the invalidation |
| `HcdInvariant` | the inductive invariants of `HcdPort` | |
| `HcdSession` | the part of the driver's behaviours that follows the allocation of pipes on an enabled device | some of the actions of `HcdPipe` and `HcdPort` |
| `IrpQueue` | what a pipe promises its client, with no buffers, interrupts or commands | abstract specification; no code of its own |
| `HcdView` | the driver as the host layer sees it: port, event, pipes that hold IRPs | abstract specification of `HcdPort`; its actions are the API calls and the interrupts |
| `HcdHostUse` | the driver under the host layer (`HostUse`), the mapping of its state to `HcdView`, and the invariant that is added | some of the actions of `HcdPipe` and `HcdPort` |
| `HcdLifecycle` | install, uninstall, port initialisation and deinitialisation, FIFO bias, allocation and freeing of pipes, by several tasks, every allocation failing at will | one action per stretch under `hcd_lock`, per group of allocations that are checked together (any of which may fail by itself), per check and per error path; `live` counts the objects on the heap, `own` says who points to them |
| `EpChar` | which endpoints are accepted, and their characteristics | `pipe_alloc_check_args`, `pipe_set_ep_char`, the FIFO tables |
| `TransferDescriptors` | the descriptor lists of the two buffers of a pipe: fill, execute, next stage, completion, error, parse | one action per step of a buffer's life; the controller moves bytes descriptor by descriptor |

The host layer:

| Module | Models | Correspondence |
|---|---|---|
| `HostPipe` (on `HcdView`) | `USBHostPipe`: objects, the queue of five messages and the task of each pipe, made one after the other, the standard requests | `task[p].at` is where `pipe_event_task` is between two calls of the driver |
| `HostPort` (on `HostPipe`) | `USBHostPort`: queue, task, connection, way back from a sudden disconnection; the schedule of all tasks | `port_task.at`, as above |
| `CdcHost`, `MouseHost` (on `HostPort`) | callbacks of the class drivers, and an application that does what the example does | one action per callback and event; `begin` is split where the port task may come between, or the task of the new pipe |
| `HostVisit` (on `HostPort`) | what holds of the host layer during a device's visit, for any class driver that opens its pipes when it gets the descriptor of the configuration | |
| `CdcVisit` (on `CdcHost`) | what the CDC driver adds to it; `CdcVisiting`, the inductive invariant | |
| `CdcTalk` (on `CdcVisit`) | what the driver and its device say to each other while it is there: `Addresses`, `ChainFlows` and `Flow`, the inductive invariants of the addresses, of the chain on the IN pipe, and with it of the OUT pipe | |
| `MouseVisit` (on `MouseHost` and `HostVisit`) | what the mouse driver adds to a visit; `MouseVisiting` and, of the reports, `MouseReports`, the inductive invariants | |
| `ConfigParser`, `HidReport` | the walk over a configuration; the report map and the readers of a report | one step per descriptor, or per item |

Checking and proving: `MCHcd`, `MCLifecycle`, `MCTransfer`, `MCCdc`, `MCMouse` and
`MCParsers` hold the instances, the restricted specifications, the fairness and
most properties; `HcdProofs`, `PipeProofs`, `LifecycleProofs`,
`TransferProofs`, `HostProofs`, `CdcProofs`, `MouseProofs` and `ParserProofs` the proofs.

Two refinements tie the levels together:

* `PipesKeepPromise`: `HcdPort` implements `IrpQueue`, once per pipe. The abstract
  queue is the done queue, then the buffers from the oldest, then the pending
  queue; the abstract statuses are those of the done queue; the device is lost when
  the pipe is invalid.
* `ViewHolds`: `HcdPort`, used as the host layer uses it (`HostUse`), implements
  `HcdView`. The IRPs in the buffers become `moving`; the two delays of a reset
  become one operation. `HostUse` leaves out what the host layer does not do: it gives
  no pipe command but RESET, and that only to a pipe with nothing in flight
  (`ResetStopped`, checked in `CdcSession` and proved in `CdcProofs`, is this very assumption), does not
  suspend or disable the port, and does nothing on a pipe while the port task, which
  has the highest priority, makes the pipes invalid. So what the runs of the host
  layer find about `HcdView` they find about the driver.

Operators such as `RetireAndFlush` or `PausedStillWaited`, each defined just
before the operator it resembles, are faulty variants: with one of them in place
the property it was made for must fail. They are used nowhere in the model.

### What is abstracted

* In `HcdPort`: descriptors, endpoint characteristics and FIFOs, which are in
  `TransferDescriptors`, `EpChar` and `HcdLifecycle`. A control transfer keeps its
  three stages, since the interrupt branches on them; any other transfer is one
  interrupt.
* `num_irp_pending`, `num_irp_done`, `num_pipes_idle` and `num_pipes_queued` are
  the lengths of their queues: the code changes each beside its queue.
* `usb_irp_t.status` is kept beside the IRP in the done queue: each assignment
  is followed by the move to that queue under the same lock.
* `cmd_processing` and `event_processing` are `port_op # idle`.
* Callbacks of the driver do nothing by themselves; what they cause a client to do
  is an action that may happen whenever the lock is free.
* In `HcdLifecycle` the port is reduced to what allocation and initialisation
  read; IRPs and events are left to `HcdPort`.
* In the host layer an IRP is named after the request in its buffer. Data is
  told apart only by whether it reads as a SET_ADDRESS request (`Payload`), which
  is all that `pipe_event_task` makes of it.
* In the parsers a descriptor is its type, the one field that is looked at, and whether
  its length is zero; a report map and a report are sequences of bytes. Behind a
  configuration comes the zeroed rest of its buffer.

### Assumptions

* One core, as on the ESP32-S2: a stretch under `hcd_lock` and a whole interrupt
  are atomic. The interrupt of a hardware change follows it before any task runs,
  except a change that the driver causes under the lock, which waits in
  `hw.change`.
* The hardware is not in the repository (`Hw`, and the operators mapped as
  external). A device comes and goes at any time; the debounce lock masks both
  interrupts until the driver lifts it; a disconnection replaces a change of the
  enable bit that was not handled; a bus reset stops the channels; a soft reset
  clears everything. The controller executes an active descriptor, writes the bytes
  that remain, and stops at the halt flag, at a short packet of IN, or at an error.
* Assertions of the code (`chan_halted`, a waiting task to notify) are guards:
  where one fails the firmware restarts and there is no further behaviour to check.
  `WokenBusy` below shows that one of them can fail.
* In `HcdPort`, pipes are freed by the task that runs the port operations, between
  two of them, and not under a command of their own: `hcd_pipe_free` does not test
  this; the port task of the host layer keeps to it. A task's wake-up and its return
  to the lock are one step. The port is initialised throughout.
* In `HcdLifecycle`, a caller does not uninstall the driver or deinitialise the
  port under another task's call on it, and keeps no handle beyond that.
* The priorities of the sources: the port task (16) goes before the pipe tasks (15),
  and these before the application (1).
* Use of an object that is not whole, or its deletion, is undefined; the model
  notes it in `fault`, and stops.
* In the sessions of the host layer the application asks for transfers only between
  the callbacks that report the device and its loss (`AppWaits`, in `MCCdc`). Neither
  `sendData` and `getSerialString` nor the example (`cdc.ino:52-62`) sees to that, so it
  is a hypothesis and no guard of an action; `Eager` drops it (EagerApp and EagerAddress below).
* In the sessions, too, no tick comes between the making of a pipe's task
  (`pipe.cpp:153`) and of its queue (`154`) in a task of the same priority; `CdcPort` has the step (`TimeSlice`), and `Sliced` is
  a session with it (EarlyTask below).

## Runs

| Run | Specification | Instance | Shows |
|---|---|---|---|
| `OnePipe` | `MCHcd`, `Spec` | 1 pipe, 2 IRPs, 2 errors, the one that aborts among them | the whole driver from the unpowered port, nothing restricted: types (the flush computes a status from stale flags, and `abort()` is reached for that error alone), the inductive invariant, interrupts find transfers |
| `Queue` | `Session` | 1 pipe, 4 IRPs, 3 errors | more IRPs than buffers: ring windows, conservation of IRPs, and the refinement `PipesKeepPromise`: order and statuses |
| `TwoPipes` | `Session` | 2 pipes, 2 IRPs | the two lists under invalidation, the pause that waits for both, ownership of an IRP, no pipe left idle with work |
| `Loss` | `Loss` | 1 control pipe, 3 IRPs, one without data stage | liveness when the device is lost: commands return, IRPs end, port operations return; a woken command finds its pipe stopped; the pipe ends invalid; the closed form of the flush is the code's two loops |
| `HostUse` | `HostUse` | 1 pipe, 3 IRPs, 2 errors | the refinement `ViewHolds` |
| `Lifecycle` | `MCLifecycle`, `SettledSpec` | 2 tasks, 2 pipes, 1 channel, 6 endpoints | nothing leaks and nothing is freed twice, whatever fails; no half-made pipe; no interrupt or pipe without its port; packets fit into the FIFOs |
| `Transfers` | `MCTransfer`, `Spec` | 4 transfer types, 3 requests, packet size 3 | a buffer describes the request, if that gets a descriptor, and nothing of an earlier one; directions and stages agree; bytes are reported as moved; streams start ahead of the frame counter and keep their schedule through wraps |
| `CdcPort` | `MCCdc`, `AnyPort` | CDC, 2 connections, faults and overcurrent, device leaves at any time | the driver's one event and the task's queue of five go out of step, and no event is left without a message; the reset of the recovery is always refused |
| `CdcSession` | `Session` | CDC, 2 devices, stalls, application | no pipe used or deleted half made, twice or not at all; no orphan in the driver; resets find nothing on the bus; the port recovers; the IN pipe keeps its request; addresses agree; each device is enumerated, the port comes back |
| `Mouse` | `MCMouse`, `MouseSession` | mouse, 2 devices, errors on IN | the same for the mouse class; reports begin, and go on through transaction errors and stalls until the device leaves |
| `Parsers` | `MCParsers`, `Parsers` | configurations of up to 4 descriptors, report maps of up to 4 fields | the walk ends or stops for good at a descriptor that the code does not step over, and finds the first interface of the class and its IN endpoint; every field is where the mouse structure says; the wheel is read as sent |

and this one, which must end in a counterexample:

| Run | Statement of the sources | What happens |
|---|---|---|
| `StuckPort` (`PauseAndLoss`, 1 pipe, 1 IRP) | a command returns ESP_ERR_INVALID_RESPONSE "if the port's state changes unexpectedly" (`hcd.h:263`) | the device is lost while suspend or disable waits: no interrupt that the driver processes notifies the task, which holds `port_mux`, so the loss can never be handled |

In `HcdSession`, `Session` starts where the pipes have just been allocated on an enabled
port and leaves out allocation, power and reset; each of its behaviours is the rest
of a behaviour of `Spec`. `Loss`, `Pause` and `PauseAndLoss`, of `MCHcd`, restrict it further, to
say which port events and commands the liveness properties are about.
`SettledSpec` leaves out two things that go wrong (`FifoRace` and `FifoReset`
below), and nothing else of `HcdLifecycle`'s `Spec`; the proofs are about `Spec`,
but for `PacketsFit`.
`MCCdc!Session` lets the device leave only once it is reported and while the application
is not inside `sendData` (`NoneDangles`, `NotMakingPipes`), keeps to stalls on the data
pipes, to an application that waits for the device, with one IRP at a time, and to the
tick as assumed above; what comes of the rest is in the table below, with the
specifications `Replug`, `Hasty`, `Errors`, `Eager` and `Sliced`.

**Bounds.** `NumBuffers` (`InBuffers`) is 2 and `QueueLen` 5 in every run, as in the
code.

* Driver: two IRPs fill the ring, three make a pending queue, four a pending queue
  whose order matters and from whose middle one can be aborted. Two pipes are the
  least at which a list has an order, a pause waits for more than one, and an IRP can
  have the wrong owner. In `OnePipe` and `TwoPipes` the pending queue stays empty;
  `Queue` and `Loss` are there for it. The model has no unbounded counter.
* `Lifecycle`: one channel for two pipes makes a failed allocation of a channel;
  each endpoint is at the limit of one FIFO configuration and beyond that of another.
* `Transfers`: no bytes and no packets, sizes below, at and above one, two and three packets; `BInterval`
  gives periods of 1, 2, 4, 16 and 32 frames; frames on both sides of a wrap of the
  isochronous list; three requests use one buffer twice (`MaxRequests`).
* Host layer: two connections (`MaxPlugs`) are a device after another; `MaxOut` 1
  is one IRP of the application at a time in the OUT pipe, and one request of its
  own in the control pipe (with 2, `MessagePerIrp` fails, below). `MaxLeak` bounds
  a counter that only grows: at 6 `CdcSession` counts every IRP that two devices can
  lose.
* Parsers: four descriptors hold an interface before, the interface looked for, and
  both its endpoints (`MaxDescriptors`), or a descriptor at which the walk stops in any
  of their places; four Input items are buttons, padding, axes and wheel in every order
  (`MaxParts`), with values of none, one and two bytes.

Every action of the driver fires in `OnePipe`, but `IrpAbort`, which fires in
`Queue`, and `ChanStage`, in `Loss`. Deadlock is not checked: a driver whose client
asks for nothing rests, and so does a host without a device, or a parser at the end
of its input.

**Symmetry** is used in runs of safety properties only, over IRPs, pipes or tasks that
the model treats alike.

**Fairness.** Weak fairness is enough everywhere, since each of these stays enabled
until it happens.

* `MCHcd`: a task that is notified or whose delay has ended runs (FreeRTOS schedules
  it); a transfer in flight on an enabled port ends (the controller reports completion
  or an error); the disable interrupt that the driver caused comes; the client handles
  port events, takes back what is done, and resumes a port that it suspended. Nothing
  is assumed about enqueues, commands or the loss of the device.
* `MCCdc!Session`, `MouseSession`: the port task runs; each pipe's task, callbacks
  included, runs while the port task is blocked, since FreeRTOS shares the core
  among tasks of equal priority; delays end; a device that stays plugged in is
  enabled by its reset and answers at its address. Nothing is assumed about the
  application, errors, or the device's coming and going.
* `Parsers`: `begin` runs to its end.

## What the comments say, and the code does not do

Each line is a statement of the sources that the models refute. To reproduce one,
check the property named last under the specification and the constants given; the
rest of the constants is as in the run of the same module (`OnePipe`, `Lifecycle`,
`CdcSession` or `Parsers`; for `MCTransfer`: `Mps = {3}`, `BInterval = {1}`,
`NumBytes = {1, 3, 6, 8, 9}`, `NumPackets = {}`, `MaxRequests = 2`, `PipeIdx = {0}`,
`FrameNum = {0}`). Symmetry must be left out for the temporal ones.

The driver (`MCHcd`):

| Name | Statement | What happens | Reproduce |
|---|---|---|---|
| NeverAborts | "HCD_PIPE_EVENT_ERROR_IRP_NOT_AVAIL should never occur" (`hcd.c:2446`) | a channel's BNA error becomes that event (`hcd.c:1640`), the IRP fails as with any error, and `_buffer_parse_error` calls `abort()` | `Spec`: `NeverAborts` |
| LostWakeup | "Some pipe commands will block until the pipe's current in-flight IRP is complete" (`src/src/hcd.h:446`) | pipe command and port suspend wait for the same transfer; the interrupt clears `waiting_xfer_done`, sees `waiting_all_pipes_pause` and notifies the port alone (`hcd.c:927`); the command never returns | `Pause`, 1 IRP: `CommandReturns` |
| SuspendBusy | "All pipes are guaranteed paused at this point" (`hcd.c:1243`) | `hcd_irp_enqueue` does not test `paused`: an IRP enqueued meanwhile is in flight when the bus is suspended | `Session`: `NoTransferWhileSuspended` |
| WokenBusy | `assert(chan_halted)` (`hcd.c:1606`) | suspend and resume complete before the woken task of a pipe command runs, and unpausing starts a buffer | `Session`: `StoppedWhenWoken` |
| LostPipes | "Each pipe will be put into the invalid state" (`hcd.c:559`) | a dequeue in a callback's window moves the pipe to the other list, and the loop at `hcd.c:1123` ends; the pipes behind it stay active and get no event | `Session`, 2 pipes: `LostMeansInvalid` |
| Halted | "IRPs will no longer be executed" (`hcd.h:57`) | `_port_unpause_all_pipes` (`hcd.c:1198`) executes a halted pipe with a filled buffer | `Session`: `HaltedStartsNothing` |
| FaultState | "Port is now HCD_PORT_STATE_RECOVERY" (`hcd.h:80-81`, of ERROR and OVERCURRENT) | the port is DISABLED or NOT_POWERED (`hcd.c:823`), so `hcd_port_recover` refuses | `Session`: `FaultMeansRecovery` |

Descriptors (`MCTransfer`, `Spec`) and installation (`MCLifecycle`, `Spec`):

| Name | Statement | What happens | Reproduce |
|---|---|---|---|
| ShortPacket | "Actual number of bytes transmitted/receives in the IRP" (`usb.h:119`) | of a short interrupt packet `mps * stop_idx - 2` is counted for the packets before it (`hcd.c:2361`), which carry `mps * (stop_idx - 1)` bytes: right only for a packet size of 2 | `Types = {"INTR"}`: `ShortPacketReported` |
| ZeroPacket | "We need to add an extra zero length packet, so two descriptors are used" (`hcd.c:2089`) | the flag for it is set with `is_in`, where it has no effect (`hcd.c:2096`); for OUT the channel gets one descriptor | `Types = {"BULK"}`: `ZeroPacketSent` |
| EmptyRequest | "Fill in the last descriptor with HOC flag" (`hcd.c:2118`), "Last packet, set the the HOC flag" (`hcd.c:2138`) | an interrupt transfer of 0 bytes and an isochronous one of 0 packets pass the assertions (`hcd.c:2103`, `2111`, `2129`); the first writes its last descriptor at index -1 (`hcd.c:2119`), and neither list holds a descriptor of the request | `Types = {"INTR"}`, `NumBytes = {0}`, or `Types = {"ISOCHRONOUS"}`, `NumPackets = {0}`: `ListHalts` |
| HalfInterval | "We want at least a half interval or 2 frames of buffer space" (`hcd.c:2188`) | with a period of 32 frames another interval is no change after the mask (`hcd.c:2189`) | `Types = {"ISOCHRONOUS"}`, `BInterval = {6}`, `NumPackets = {1}`, `FrameNum = {0, 1, 7, 8, 15, 16, 30, 31}`: `StartsAheadOf32` |
| ListClear | "Clear the descriptor list" (`hcd.c:2390`) | value and size of the `memset` are in each other's roles (`hcd.c:2391`, also 2325 and 2341): it writes the length of the list into the first descriptor | `Types = {"INTR"}`: `ListCleared` |
| ZeroInterval | "Round down interval to nearest power of 2" (`hcd.c:1778`) | bInterval 0 is accepted and gives a period of 0 (`hcd.c:1774`) | `Types = {"INTR"}`, `BInterval = {0, 1}`: `IntervalIsPowerOfTwo` |
| FifoRace | "Check if MPS is within FIFO limits" (`hcd.c:1715`) | `hcd_pipe_alloc` (`hcd.c:1812`) uses the bias that it read before it left the lock; another task changes it, or resets the port, in between | 2 tasks: `PipesFitFifo` |
| FifoReset | the bias may only be changed when "Port does not have any allocated pipes" (`hcd.h:342`) | the reset of an enabled port sets FIFOs and bias to the default under allocated pipes (`hcd.c:1411`) | 1 task: `PipesFitFifo` |
| NoPort | "ESP_ERR_NO_MEM: Insufficient memory" (`hcd.h:203`) | after a failed `port_obj_alloc` (`hcd.c:1046`) the driver is installed without a port, and ESP_OK returned | 1 task: `InstalledHasPort` |

The host layer (`MCCdc`):

| Name | Statement | What happens | Reproduce |
|---|---|---|---|
| DoubleDelete | "this is called before event in port.cpp to delete all pipes here to properly recover port later" (`src/src/cdchost.cpp:107`) | the pointers keep their values; a second device lost before `begin` has replaced them deletes both pipes again (`cdchost.cpp:108`) | `Replug`: `DeletesWholePipes` |
| BeginRace | the same | a device lost while `begin` makes the IN pipe: `init` (`pipe.cpp:149`) returns early, and `port_cb` deletes a pipe that is half made | `Hasty`, `MaxPlugs = 1`: `DeletesWholePipes` |
| HeldIrp | "Free transfer requests (and their associated objects such as IRPs and data buffers)" (`pipe.cpp:190`) | the IRP in the hands of the task that the destructor kills (`pipe.cpp:113`) is never freed | `Replug`, `MaxPlugs = 1`: `NothingLeaks` |
| EagerApp | "Enqueue send data requests on OUT endpoint pipe" (`cdchost.h:123`) | `sendData` tests nothing (`cdchost.cpp:276`), nor does the example before it calls it (`cdc.ino:61`): before `begin`, and after the loss, there is no OUT pipe | `Eager`: `UsesWholePipes` |
| EagerAddress | "All IRPs have been dequeued from the pipe" (`hcd.h:412`) | a request of the application (`cdc.ino:57`, `test_strings`) stands behind the SET_ADDRESS, and is started at the old address by the interrupt that ends it | `Eager`, `MaxOut = 2`: `AddressAgrees` |
| EarlyTask | "pipe queue not initialized" (`pipe.cpp:157`), when there is none to wait for | the task is made first (`pipe.cpp:153`), at the priority of the task that makes it: a tick before the queue is made lets it receive from whatever `pipeEvtQueue` holds | `Sliced`: `UsesWholePipes` |
| PowerBounce | "physical disconnection detected" (`port.cpp:68`) | the task acts on the message, not on what `hcd_port_handle_event` returned: a disconnection that debouncing took back powers the port off, for good | `Hasty`: `PowersOffGone` |
| Overflow | "previous IRP dequeued, time to send another request" (`cdchost.cpp:146`) | after an overflow nothing resets the pipe; the next request is refused, and there is no other (`cdchost.cpp:147`) | `Errors`, `MaxPlugs = 1`, `MaxOut = 2`: `ChainAlive` |
| CanceledAsDone | "The pipe has completed an IRP" (`hcd.h:94`) | after a reset messages and IRPs no longer belong together: a canceled IRP is handled as a completed one (`pipe.cpp:15`) | `Errors`, `MaxPlugs = 1`, `MaxOut = 2`: `DoneIsCompleted` |
| AddressBusy | "All IRPs have been dequeued from the pipe" (`hcd.h:412`) | the address changes under a request on the bus (`hcd.c:1942`) | `Errors`, `MaxPlugs = 1`, `MaxOut = 2`: `AddressOfIdlePipe` |
| DataAsRequest | "intended to be called on default pipes during enumeration" (`hcd.h:408-409`) | data on the IN or OUT pipe that reads as SET_ADDRESS changes that pipe's address (`pipe.cpp:67`) | `Errors`, `MaxPlugs = 1`, `Payload = {"SET_ADDR"}`: `DataPipesKeepAddress` |
| MessagePerIrp | "This function should be called on a pipe after a pipe receives a HCD_PIPE_EVENT_IRP_DONE event" (`hcd.h:488`, of `hcd_irp_dequeue`) | the reset after a stall ends the IRPs behind the stalled one without a message, and each message takes one IRP (`pipe.cpp:128`): one stays in the done queue | `Session`, `MaxOut = 2`: `MessagePerIrp` |

The parsers (`MCParsers`, `Parsers`, `MaxParts = 1`):

| Name | Statement | What happens | Reproduce |
|---|---|---|---|
| OutEndpoint | "Enqueue send data requests on OUT endpoint pipe" (`cdchost.h:123`) | `getEndpointByDirection` with direction 0 takes any endpoint (`configparse.cpp:211`): with the IN endpoint first, the OUT pipe is made on it | `Config <- InFirst`, `MaxDescriptors = 2`: `OutIsOut` |
| EndlessWalk | "return NULL" (`configparse.cpp:196`), when a search finds nothing | a DEVICE descriptor (`configparse.cpp:92`), or one of length zero, is not stepped over: `begin`, and with it the task of the control pipe, runs for ever | `MaxDescriptors = 2`: `EveryWalkEnds` |
| LongItem | "uint32_t value = 0;" (`parse_hid.cpp:143`), for the value of an item | the length is the item's two lowest bits (`parse_hid.cpp:260`), of which 3 stands for four bytes: the fourth is taken for the next item, and the rest of the map is misread | `Maps <- LongValue`: `LongValuesAgree` |
| SecondMap | "static uint16_t report_bits = 0;" (`parse_hid.cpp:17`), at the beginning of a map | nothing resets the variables: the fields of a second map are put behind those of the first | `SPECIFICATION TwoMaps`: `LayoutAgrees` |
| HidThree | "3 * 8 = 24" (`parse_hid.cpp:336`), three values in one field | `setup_wheel` (`parse_hid.cpp:54`) begins behind all three, and `get_wheel` reads beyond the report | `Maps <- ThreeAxes`: `WheelIsThird` |
| HidAxis | "X axis(raw bytes)" (`examples/mouse/mouse.ino:45`), the signed byte at its place | `get_x_axis` (`parse_hid.cpp:314`) takes the sign bit of Y, and does not extend it | `Maps <- TwoAxes`: `XIsRead` |

## Proofs

`HcdProofs` proves, for every finite set of pipes, every set of IRPs and every
number of buffers greater than 0:

| Theorem | Property |
|---|---|
| `InvariantHolds` | `Spec => []IInv` |
| `TypeCorrect` | `[]TypeOK`, whatever errors the channels report (`ChanError`) |
| `DoubleBuffering` | `[]RingConsistent` |
| `IrpsConserved` | `[]IrpConservation` |
| `OneOwner` | `[]IrpOwnedOnce` |
| `ListsHold` | `[]ListsConsistent` |
| `InterruptsFindTransfers` | `[]InterruptHasTransfer` |

`Status`, and so `TypeOK`, has the mark of an IRP at which the program aborts only
if `ChanError` has the error that leads there (`Fatal`): with no such error,
`TypeCorrect` says that `abort()` is not reached at all. The model goes on after the
mark where the program ends, which only adds behaviours.

The assumptions are those of the modules: `NumBuffersAssumption`,
`IrpAssumption`, `ChanErrorAssumption`, `PipeAssumption`, `NoPipeAssumption`.

The argument. None of these properties is inductive by itself. That counters and
indexes agree rests on every completion finding a buffer in flight; that rests on
a channel being busy only with a buffer, or on the driver not listening to it; a
flush under a busy channel (the device was lost) makes a *stray* channel, so one
must know that no device is enabled before a bus reset has stopped it; so that
every invalidation happens with no device enabled, which in turn depends on which
events can be pending while a reset is under way. `IInv` adds exactly these:
`InvalidPipesFlushed`, `StraysUnheard`, `NoDeviceToInvalidate`, `EnabledByReset`,
and, for the lists, `WaitCounted` and `CursorListed`. TLC checks `IInv` in
`OnePipe`.

These rest on `IInv` and speak of commands, of transfers in flight and of what the
client and the host layer are told:

| Theorem | Property |
|---|---|
| `PipeProofs!PromiseKept` | `Spec => PipesKeepPromise`: the driver implements `IrpQueue` |
| `PipeProofs!WorkDone` | `NumBuffers > 1` implies `Spec => []WorkConserving` |
| `PipeProofs!WokenStopped`, `PipeProofs!SessionStopped` | `[]StoppedWhenWoken`, as long as no command pauses the port (`UnpausedNext`; WokenBusy above shows what happens otherwise), from the unpowered port and from the start of a session |
| `PipeProofs!PauseCountsPipes` | `Session => []PauseCounted` |
| `PipeProofs!FlushInOneStep` | `Spec => []FlushAgrees` |
| `PipeProofs!OnePipeLost` | with one pipe, `[]LostMeansInvalid` from the unpowered port and from the start of a session, whatever the clients do |
| `PipeProofs!HostUseLost` | `HostUse => []LostMeansInvalid`, for any number of pipes |
| `PipeProofs!HostSeesView` | `HostUse => ViewHolds`: the driver implements `HcdView`, with channels that do not report the error that aborts (`NoneFatal`) |

* `PromiseKept`. The refinement is proved pipe by pipe. What a step may do to one pipe
  is one of eight relations, one for each kind of operation of the abstract queue:
  `Keeps`, `Accepts`, `Ends`, `CancelsAll`, `Cancels`, `Loses`, `Returns`, `Reopens`.
  Every function on a pipe is put under one of them, from the places of the IRPs
  (`HcdProofs`), then every action (`HonestStep`). The abstract queue
  is a function of the ring only where the ring is sound, so this stands on `IInv`: the
  interrupt of a stray channel, or a flush of a ring whose counters disagree, would
  give back an IRP out of order.
* `WorkDone` and `WokenStopped`. The steps are first sorted by what one pipe sees of them
  (`PipeTurn`, `TurnsTaken`): it is opened, used by its client, commanded, told to
  wait, resumed, finished by the interrupt, paused, unpaused or invalidated. Then each
  turn keeps `WaitInv` (a waiting command owns `pipe_cmd_processing`; an IRP waits only
  where no buffer is free, or where the interrupt that freed one did not go on) and
  `Diligent`. With one buffer the theorem is false: the interrupt looks for a buffer
  to execute before it fills the one it has emptied. Of a woken command: the only turn
  that starts a transfer under it is the end of a resume.
* `PauseCountsPipes`. One flag of a pipe, `waiting_xfer_done`, serves two waiters, so the
  counter alone cannot be shown to agree with the flags. The invariant (`PauseInv`)
  keeps it between two bounds: it never exceeds the number of flags, and the flags
  in excess are owed to commands that have not been notified. Each flag has a transfer
  in flight that will clear it (`FlagServed`).
* `FlushInOneStep`. Each loop is a recursive function of the number of rounds; what the
  pipe is after k rounds (`Marked`, `Parsed`) is stated outright and shown to be what
  one more round makes of it (`MarkedNext`, `ParsedNext`). That the loop therefore is
  that for every k is an induction, made by the least k that would refute it
  (`LeastOne`). The ring's windows (`RingWindows`) give each round its buffer.
* `OnePipeLost`. A port in recovery has told its pipe only if the loops that tell it
  came by: `LossInv` says that a loss is pending, or being handled, as long as a
  pipe may be untold (`LossSeen`, `LostInvalid`), and that the pipe the loop has just
  reached is invalid (`CursorInvalid`). With two pipes it is false of `Spec`
  (LostPipes above): a dequeue moves a pipe behind the cursor.
* `HostUseLost`. The port task runs undisturbed through both loops, so `LoopsReach`
  can say what they have reached: all pipes up to the cursor, and in the second loop
  all of the active list. `HostInv` adds what the restricted use of the driver gives:
  nobody waits (`NothingWaits`), a halted pipe starts nothing (`HaltedStops`), and the
  enable bit belongs to a device that the driver knows or to a reset (`EnableKnown`).
* `HostSeesView`. A pipe is `Seen` without its buffers: the IRPs from the oldest
  buffer are `moving`. Each function on a pipe is shown to be, seen so, its
  counterpart in `HcdView`; then each action of the driver is one of `HcdView` or
  nothing. That the view may leave out executions, waits and stray channels rests on
  `HostInv`; that the oldest IRP is the one that ends, on `IInv`.

`HcdProofs` begins with the lemmas about single operators: each function on a pipe
preserves the type, the ring windows and the places of the IRPs (arithmetic on
indexes modulo the number of buffers, sequences without repetition). Then it
has one lemma per action for the invariant, the step theorem `IInvInductive`, and
the first theorems above.

`LifecycleProofs` proves, for every finite set of tasks and of pipes, any endpoints
and any number of channels (`LifecycleAssumption`), with every allocation failing at
will:

| Theorem | Property |
|---|---|
| `InvariantHolds` | `Spec => []IInv` |
| `LeaksNothing` | `[]NothingLeaks`: each object on the heap, the interrupt and each channel has exactly one owner |
| `AllocatesWhole` | `[]PipesAreWhole` |
| `InterruptSafe` | `[]InterruptHasPort` |
| `PortUnderPipes` | `[]PipesHavePort` |
| `PacketsFit` | `SettledSpec => []PipesFitFifo`, whatever the endpoints (`EndpointAssumption`) |

The argument. `NothingLeaks` says that the objects counted in `live` are those that
the driver, the pipes and the calls in progress own. A step that frees or hands over
keeps that only if what it has is known: what an error path frees is what the code's
`free` calls name and not what the model says is owned, and the two must be shown to
agree. `OwnByPlace` says what a task owns at each place of its call (after `i` buffers,
`Built(i)`; on an error path, each buffer whole or not at all), `PipesAllOrNothing`
what a pipe owns, and `DriverParts` the driver. That nothing goes away under
a call rests on `CallsHavePort`. The steps are then counted by three lemmas: what a
set of owners has of a kind after one of them changed (`OwnersMove`), for pipes
(`PipeLedger`) and for tasks (`TaskLedger`). `PacketsFit` needs one thing more: a pipe
enters its list with the bias read in an earlier critical section, so `FifoInv` says of
an allocation in progress that this bias is still the port's (`BiasStillRead`).
That the driver's limits in bytes are the FIFOs' lines is arithmetic (`LimitFits`).

`TransferProofs` proves, for any endpoints, requests, frame numbers and number of
pipes (`TransferAssumption`):

| Theorem | Property |
|---|---|
| `StagesAgree` | `Spec => []DirectionsAgree` |
| `StreamScheduled` | `Spec => []StreamOnSchedule` |
| `StreamAhead` | `Spec => []StartsAhead` |
| `RequestDescribed` | `Spec => []DescribesRequest` |
| `BytesAreReported` | `Spec => []BytesReported` |

`TransferAssumption` says what the types of `usb.h` say, that no isochronous
endpoint has a bInterval of 0: the shift in `hcd.c:1774` is then undefined, and there
is no period to prove anything about (the hazard listed at that line); and that no
interrupt endpoint has a packet size of 0, by which `hcd.c:2103` divides. The requests
are all that pass the assertions of the fill functions (`Fits`). Two kinds of them get
no descriptor (`Empty`): they are filled, executed and, if the channel comes to an end
of the stale list, parsed as the others, but `RequestDescribed` and `BytesAreReported`
say nothing of them, for there the code is wrong (`ListHalts`, under EmptyRequest above).

The argument. The periods that the driver accepts are the six powers of two that divide
the length of the list (`PeriodIsPower`), so a frame that is whole intervals away is
scheduled also after a wrap (`FrameScheduled`). A list is never cleared between two
requests, so an invariant cannot say what is in it; it says what is in the part that the
channel will meet, up to the descriptor with the halt flag: `PacketsInSchedule` for an
isochronous request, `StagesInPlace` for the stages of a control transfer that are
still to run. What the channel makes of such a list is a lemma of its own
(`PacketsInPlace`, `StageRuns`). `RingOK` says which buffers are filled: at most those at
`rd_idx` and the one behind it. Hence the buffer whose last index continues the stream
(`1 - wr_idx`) is the one before the buffer that is filled, and `StreamOK` chains the
two; and the stage of a channel is that of the buffer at `rd_idx` (`ChanOK`). The steps
of the controller are arbitrary: of what it writes back only `active` and the bytes
that remain differ (`ExecutedIs`).

The last two theorems are about bytes, and need two invariants more. `BytesOK` says of
each buffer (`BufferBytes`) that one that waits describes its request, packet by packet,
and that in one that has run the bytes that remain in the descriptors are those that did
not move. `RunOK` says that an active channel was given all the descriptors of the
buffer: a bulk request with its zero length packet, the `num_qtds` of an interrupt
request, the whole list of an isochronous one. With `ListInv`, the invariant of the
first three theorems, they make `TransferInv`. What the channel finds in such a buffer
(`Finds`) and what a run can leave in it (one lemma per type of transfer) then give what
parsing reports (`Reports`). Sums are the function `Total` of the model: that there is
one such function and only one (`TotalIs`, `SumsUnique`) follows from the least index at
which two of them would differ (`LeastOne`), without induction over an operator. Of an
interrupt IN transfer that ends early `BytesReported` says nothing; there the code
reports less than its comment promises (`ShortPacketReported`, in "What the comments say, and the code does not do").
The proof showed that the alternatives of the controller's `Outcome` overlapped: an
isochronous IN run also met the guard of the bulk one, and which of the two it took
was TLC's choice. They are now exclusive.

`HostProofs`, `CdcProofs` and `MouseProofs` prove, for every finite set of pipes, any
requests, any length of the queues and any number of connections (`HostPipeAssumption`,
`PlugsAssumption`, `CdcAssumption`, `MouseAssumption`):

| Theorem | Property |
|---|---|
| `CdcProofs!PortIsSafe` | `Spec => []PortSafe`, whatever the device, the transfers, the application and the tick do |
| `CdcProofs!AnyPortIsSafe` | `AnyPort => []PortSafe`: the same of the run `CdcPort` |
| `CdcProofs!SessionIsSafe` | `Session => []SessionSafe`: a device answers the control pipe, may stall on the data pipes, and leaves when no pipe is being made; the application waits for the device (`AppWaits`); no tick comes between a pipe's task and its queue |
| `CdcProofs!DeviceIsAddressed` | `Session => []AddressAgrees`, if no data read like a SET_ADDRESS; nothing of the application is behind the SET_ADDRESS, since it waits |
| `CdcProofs!ChainGoesOn` | `Session => []ChainAlive`, if no data read like a SET_ADDRESS or a SET_CONFIGURATION |
| `CdcProofs!NoRequestIsLost` | `Session => NoneLostWhileThere`, with the same data, and if the application has no more IRPs on the OUT pipe than the queue of its task has places (`MaxOut \in 0 .. QueueLen`) |
| `MouseProofs!MouseIsSafe` | `MouseSession => []MouseSafe`: the control pipe answers, transfers of the IN pipe end in a transaction error or a stall at will (not in an overflow), and the device leaves when no pipe is being made; no tick as above |
| `MouseProofs!ReportsContinue` | `MouseSession => ReportsGoOn`, in the same sessions: through transaction errors and stalls, but not through an overflow, after which nothing resets the pipe |

The argument. The reset of `suddenDisconnect` is refused because the port stays down
from the loss of the device until `recover`, through any number of interrupts in
between. What holds it down is the debounce lock: it masks connections and
disconnections, so there can be no second loss (`OneLoss`), and the delay that would
lift it cannot begin, since no connection or disconnection is left to handle
(`LossStays`, `LockHeld`). Messages say what the driver's event was when they were
sent, not what it is when they are taken; so `MessageComes` claims only that an event
that is not handled has some message coming. Before `init` there is no task, and the
port is off (`Boots`). `HostProofs` shows this of each action of the port, and of what
a class driver may call; `CdcProofs` of the CDC driver and its application. TLC
checks `PortInv`, the conjunction, on `AnyPort`. The proof showed that
`PostInvalid` lacked a guard: `pipeCallback`, called from the port task, waits for a
place in the queue (`pipe.cpp:133`), and without the wait the queue was not bounded.

The argument of `SessionIsSafe`. The code neither tests that an object is whole before
it uses or deletes it nor looks at what the driver answers; that this does no harm rests
on where the tasks stand, so the invariant, `CdcVisiting`, ties their places to the
state of the port, the objects and the driver's pipes. `PortVisit` says, for each place
of the port task, which state the port is in, and that at most one event or message is
under way. `ObjectsVisit` says that an object is whole exactly if the driver has its pipe
and it has a task, that the task of one that is half made (`created`) waits for its queue, that a pointer
without an object is met only between its deletion and `recover`, and that the control pipe outlives the data pipes. `CtrlVisit` says that
the requests of the enumeration are on the control pipe one after the other, and that
none is left once there are data pipes: so a second descriptor of the configuration
cannot come and open them again over the first. `Beginning` and `Begun` say how far
`begin` has come and that no one uses a pipe before it is done; `CdcErrors`, that each
pipe has at most one error that is not handled, and has been halted since, which is
`ResetStopped`. Invalid pipes are all deleted before `recover`, whose refusal would have
left the port in recovery. Each action is shown to keep each part; TLC checked
`CdcVisiting` on the session of the run `CdcSession` first. `Visit`, the first three,
does not mention the CDC driver, and `HostProofs` proves the steps of the host layer
for any class driver.

What needs the hypotheses: that the application finds whole pipes is that `ready` implies
them (`Begun`), so it must look (`AppWaits`), and a task that is `created` must not run.

The argument of `DeviceIsAddressed`. The device takes its new address with the last
transfer of the SET_ADDRESS, the pipe when the task handles the answer. Between the two
(`Turning`) nothing is on the control pipe, because SET_ADDRESS is the last request of its
stage, and the application, which waits to be told of the device, has not asked yet; at any other time the two addresses are the same, and whatever comes after
(`Addressed`) finds the device at `Address`, which `begin` gives to the data pipes
(`DataAddressAt`). `CtrlAnswers` says that no error intervenes on the control pipe.

The argument of `ChainGoesOn`. `DataStep` says what any step of a session can do to a
data pipe of a device that is there: nothing, begin it, one of seven things (its task
skips a message, takes one, handles it, calls back, is free again; a transfer ends; someone
asks for one), or end it. `OneRequest` names the four places of the one request on
the IN pipe, with the message and the state of the pipe that go with each: a stall halts
the pipe, its message resets it, and the callback finds it active and sends the next.

The argument of `NoRequestIsLost`. A request is refused by a pipe that is halted. The
control pipe never is, and the chain finds the IN pipe active. The application runs when
the tasks have nothing to do, so it meets a halted OUT pipe only if the message of the
error was dropped. `OutMessages` says that there are no more messages than IRPs done, so
up to `QueueLen` IRPs there is room for each. With more the property fails: for
`QueueLen = 1` and `MaxOut = 2` TLC finds a stall whose message is dropped, and the request
that the pipe, halted for good, then refuses. The code has five places
(`pipe.cpp:128`) and no limit on the IRPs of `sendData`. The hypotheses about the data are
needed too: a pipe task takes the bytes of any IRP that is done for a request (`DataPipesKeepAddress`)
and sends requests of its own on the data pipe; with data that read like a SET_CONFIGURATION
TLC finds one that is lost. TLC checked `Addresses` and `Flow` on a session with `MaxOut = 2`
(6.3 million states) first.

The argument of `MouseIsSafe`. The mouse driver answers a loss with one deletion, of an
IN pipe whose pointer stays, and `begin` makes that pipe between two messages of the
control pipe. `Visit` holds of it as of the CDC driver, by the same lemmas; what it adds
(`MouseOpened`) is that the IN pipe is half made exactly while `begin` is between its two
halves, and that the application, when it is told of the device, finds it whole unless
the port task has handled the loss meanwhile. `FirstReport` finds it so because a report
map comes only after `begin`: the requests of the enumeration are on the control pipe
until there is an IN pipe (`CtrlVisit`), and the report map is not one of them. TLC checked
`MouseVisiting` on the session of the run `Mouse` first.

`ReportsContinue` needs to know that there is one request for a report, no more: two would
leave an answer behind when an error resets the pipe. `OneReport` lists where it can be,
with all of the pipe's state (`OnItsWay`, `Reported`, `InHand`, `ToAskAgain`): the task
resets a halted pipe with nothing on it, so that in `in_pipe_cb` it is as `begin` made it
and takes the next request, whose second reset therefore ends nothing. That the first
request finds the pipe unused is `OneMap`: the map is asked for once, after `begin`, and
what is left on the control pipe then are requests for something else. TLC checked both
on the same session first.

`ParserProofs!WalkFindsFirst` is `Parsers => []FindsFirst`, for any set of
configurations (`ConfigAssumption`), of whatever length. The invariant (`WalkInv`)
says that a search has passed over nothing it was looking for, that what an earlier
search found is the first of its kind, and that the search for an endpoint began at
the interface. That the endpoint found behind the interface is one of the interface,
if it has any, follows (`WalkFinds`). Where the walk comes to
an end (`WalkEnds`) is left to TLC.

`ParserProofs` also proves, of the parser of report maps and for any maps, of any bytes
(`MapsAssumption`):

| Theorem | Property |
|---|---|
| `FieldsWherePut` | `Parsers => []LayoutAgrees` |
| `WheelReadAsSent` | `Parsers => []WheelIsRead` |

The layout of a map is the standard's, in which an item's length code 3 means four bytes.
Both properties are about maps that are `Described`: made of whole items; X and the wheel
are said once each, and an Input item comes after them; each Input item has a page, a size
and a number of fields, and is one the parser was written for (`Expected`): buttons, axes
with X, one wheel, or a vendor's item without bits; and `Readable`: no value of four
bytes, no item of the long kind, no page of two bytes, no usage of another page that the
parser takes for X or the wheel, no `Pop`, and one report. All maps of the run `Parsers`
are both. Of others the code is known to go wrong (`LongItem`, `HidThree` above), or leaves
bits uncounted (constant padding on the page of the pointer, Y in an Input item of its
own). A map is parsed once per power-up; of a second one `LayoutAgrees` is false
(`SecondMap`). In this version of the code nothing comes to the parser: its call
(`mousepipe.cpp:42`) is inside the branch for the configuration (`mousepipe.cpp:26`).

The items of a map begin where the parser looks for one: a readable map has the lengths
that the parser takes (`NextStart`), which is shown from the recursive function `Left` that
cuts the map by the standard (`LeftIs`). The invariant (`MapInv`) says, at each item, that
the registers hold what was said last (`Registers`); that the flags are set for the usages
whose Input item is still to come (`Pending`); that `report_bits` is where the fields of
the next item begin; and that the fields that have been made are in place (`Passed`). The
layout, a recursive function as well, exists because its values up to any byte do
(`StepsExist`), shown by the least byte at which they would not. The bits of the report
are in 16 bits without loss because a described map has fewer.

Only model-checked:

* liveness (`CommandReturns`, `IrpEnds`, `PortOpReturns`, `Enumerated`, `ComesBack`,
  `ReportsBegin`, `WalkEnds`): liveness under fairness is out of the prover's reach.

## Not modelled

* `parse_data.cpp` prints descriptors; it keeps no state and nothing depends on it.
* The macros of `usb.h` that fill in requests, string conversion
  and class names: formatting only. Read-only getters are the fields they read.
* Of the CDC driver, `setControlLine`, `getLineCoding` and `intrData` have no action of
  their own: the first two are `setLineCoding` with another payload, the third is
  empty. `getConfiguration` of a pipe has no caller.
* Of the examples, only what the CDC and the mouse example make the application do.
* Hardware, the HAL and FreeRTOS are not in the repository; they are modelled from
  how the sources use them.
* Several ports: the driver has one (`NUM_PORTS`).
* Two tasks that enqueue the same IRP at once: the test of its state is made before
  the lock is taken, and the model makes it with the enqueue. `hcd_pipe_free` under
  another task's command. The time between a task's notification and its return to
  the lock, apart from what `StoppedWhenWoken` is about.

## Plan

Left for later: a module `TaskNotify`, with notification and return to the lock as two
steps (`_internal_port_event_wait`, `_pipe_wait_done`), and with `hcd_pipe_free` and a
second enqueue in between.
