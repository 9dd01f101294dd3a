# TLA+ models of custom-ros-odrive

Models of the ROS 2 driver in this repository: one `custom_odrive_node` per
ODrive on a CAN bus, the epoll/SocketCAN library under it (`odrive_base`), and
the two Python scripts that operate a motor. TLC checks the models on small
instances; TLAPS proves their safety for every value of the constants: of the
node's command path alone and with its drive, of its feedback path, of the event
loop, the socket, the frame layouts and the scripts.

Paths below are relative to the repository: `custom_odrive_node.cpp` is
`custom_odrive/src/custom_odrive_node.cpp`, and so on.

## 1. Inventory

### 1.1 Components

| Component | State | Operations | What makes it correct |
|---|---|---|---|
| **Command path** of the node (`custom_odrive_node.cpp/.hpp`, `main.cpp`) | latches `enabled_`, `drivestop_active_`; one-slot mailboxes `axis_state_`, `ctrl_msg_`; eventfds `sub_evt_`, `srv_evt_`, `srv_clear_errors_evt_`; cached mode | `subscriber_callback`, `drivestop_callback`, the services, `request_state_callback`, `ctrl_msg_callback`, `request_clear_errors_callback`, `init`, `deinit` | a disabled or stopped motor is not told to move; nothing that was accepted is lost but for being overtaken by something newer; setpoints go out under their mode; shutdown ends in IDLE |
| **Feedback path** (`recv_callback`, `get_errors`) | `ctrl_stat_`, `odrv_stat_`, their mutexes and publication flags, `heartbeat_sequence_` | `recv_callback`, `publish_controller_status`, `service_get_errors_callback`, `fill_axis_state_response` | reported fields belong together; statuses are news and keep coming |
| **Event loop** (`epoll_event_loop.cpp/.hpp`) | interest list and contexts, `n_events_`, the batch `triggered_events_`, `stop_fd_`, `stop_requested_` | `register_event`, `deregister_event`, `drop_event`, `run_until_empty`, `request_stop`, `EpollEvent::init/deinit/set/on_trigger` | a signal is served after it was set; no callback of a deleted context; the loop stops when asked |
| **SocketCAN interface** (`socket_can.cpp/.hpp`) | `socket_id_`, `broken_`, the kernel's receive queue and pending error | `init`, `deinit`, `send_can_frame`, `on_socket_event`, `read_nonblocking` | frames are read, epoll watches only the socket, sends reach the socket |
| **Velocity test** (`scripts/velocity_ramp_test.py`) | where `main()` is, `_vel`, `_axis_state`, rclpy context | warm-up, services, arming, monitoring, clean-up, Ctrl-C | the test does not leave the motor in closed loop |
| **Commissioning** (`scripts/commission.py`) | where `main()` is, `ParkHelper`, the worker thread of `find_any` | park, prompts, discovery, configuration, calibration, save | the node stays parked; exit code 0 says what was done; it comes to an end |
| **Frame layout, error decoding** (`byte_swap.hpp`, `can_helpers.hpp`, `odrive_error_decoder.hpp`) | none; the eight bytes under way | `write_le`, `read_le`, `can_set_signal_raw`, `can_get_signal_raw`, `verify_length`, `decode_odrive_error` | fields arrive as they were meant, at their addressee, and nothing else does |
| **Generated CAN message classes** (`can_simple_messages.hpp`), enums (`odrive_enums.h`) | none | `encode_buf`, `decode_buf` | they agree with what the node packs and reads by hand |
| Launch files, motor configurations, containers, CI | none | | declarative; the parameters they set are the constant `Launches` |

### 1.2 How they interact

```
 velocity_ramp_test.py   commission.py      other nodes
        |  topics, services   |   \  Fibre over CAN (external library)
        v                     v    \
 executor thread(s): group "sub" (control_message, /drivestop)
                     group "srv" (four services)
        |  latches (atomics), mailboxes (mutexes), eventfds
        v                                             ^ condition variable,
 CAN thread: EpollEventLoop::run_until_empty          | records, publishers
        |  write                          recvmsg     |
        v                                             |
 SocketCanIntf  ------------------  CAN bus  ---------+--- ODrive
```

`main()` constructs the node, calls `init()`, starts the CAN thread, spins a
`MultiThreadedExecutor`, and on return stops the loop, joins the thread and
calls `deinit()`. The two callback groups are mutually exclusive each, so at
most one callback of each runs at a time, concurrently with the CAN thread.

### 1.3 What is hard here

* Two callback groups and the CAN thread share two atomics, two one-slot
  mailboxes and three eventfds. Guards (`drivestop_active_.load()`) and the
  stores they protect are separate steps.
* `request_axis_state` waits seconds on a condition variable inside its group.
* The CAN thread handles batches: what `epoll_wait` reported may be stale when
  it is dispatched, and callbacks may deregister what the batch still holds.
* Frames may be refused by the kernel, and no caller looks at the result.
* The node never asks the drive what it did: it believes heartbeats that may
  have been under way, and a mode it sent once. The drive refuses, faults, ends
  procedures and reboots on its own.
* Frames are laid out three times, by hand, by generated classes and by the
  firmware; some memory they are packed in is not initialised.
* Publication depends on exact flag values that only publication resets.
* The scripts give up on services without taking their requests back, and
  discovery may block for ever.

`PROJECT.json` lists 39 hazards with their lines and the properties that cover
them; those without one say why.

## 2. Modules

| Module | Models | Lines of code behind it |
|---|---|---|
| `CustomODriveNode` | command path, its threads, init and shutdown | `custom_odrive_node.cpp` 119-211, 340-580, `main.cpp`, the loop and eventfds as the node uses them |
| `CustomODriveNodeProofs` | theorems about it | |
| `DriveSystem` | EXTENDS `CustomODriveNode` with the drive's axis, its heartbeats under way, faults and reboots | `custom_odrive_node.cpp` 244-261, 370-426, 501-579 seen from both ends |
| `DriveSystemProofs` | theorems about it, on those of `CustomODriveNodeProofs` | |
| `CanFrames` | one message: packed, addressed, filtered, unpacked; error decoding | `byte_swap.hpp`, `can_helpers.hpp`, `odrive_error_decoder.hpp`, `verify_length` |
| `CanSimple` | the layouts: of the generated classes and of the node | `can_simple_messages.hpp`, the frames of `custom_odrive_node.cpp` |
| `CanFramesProofs` | theorems about `CanFrames`, for every set of layouts | |
| `CanSimpleProofs` | theorems about the layouts of `CanSimple`, on those of `CanFramesProofs` | |
| `Feedback` | the feedback path at the grain of field stores and mutexes | `custom_odrive_node.cpp` 213-338, 459-474 |
| `FeedbackProofs` | theorems about it | |
| `Signal` | abstract: what an `EpollEvent` promises; `EventLoop`, `SocketCan` and `CustomODriveNode` implement it | the comments of `epoll_event_loop.hpp` as `set`, `on_trigger`, `deinit` make them precise |
| `EventLoop` | `EpollEventLoop`, `EpollEvent`; implements `Signal` | all of `epoll_event_loop.cpp` |
| `EventLoopProofs` | theorems about it, with the safety part of the refinement | |
| `SocketCan` | EXTENDS `EventLoop` with the socket's descriptor | all of `socket_can.cpp` |
| `SocketCanProofs` | theorems about it, on those of `EventLoopProofs` | |
| `MotorNode` | the node and its drive as the scripts see them | service and topic callbacks |
| `VelocityTest`, `Commission` | the scripts; each EXTENDS `MotorNode` | `velocity_ramp_test.py`, `commission.py` |
| `Operators` | both scripts on one motor | |
| `OperatorsProofs` | theorems about it | |
| `MCCustomODriveNode`, `MCDriveSystem`, `MCCanFrames`, `MCFeedback`, `MCOperators` | values of constants for TLC | |

`EventLoop` and `SocketCan` need no MC module: their constants are sets of
strings given in the `.cfg`.

### 2.1 CustomODriveNode

A step is one access to state that another thread can see. `pc[t]` says where
each thread is: `"sub"` and `"srv"` stand for the callback groups, `"can"` and
`"main"` for the threads. For instance `service_callback` is `ServiceAccept`
(the loads of both latches, in one step: see below), `ServiceStore` (the
critical section of `axis_state_`), `ServiceSet` (`srv_evt_.set()`),
`ServiceBeginWait` (locking `ctrl_stat_mutex_` and taking the heartbeat number)
and `ServiceReturn` (confirmed or timed out). `ctrl_msg_callback` loads its two
latches in two steps, `CtrlLoadEnabled` and `CtrlLoadDrivestop`, because a
closing latch between them is one of the hazards. A callback's first load is
its first step, and where two loads of a callback are one action the second
latch can be changed only by callbacks of the group that is busy with it
(`enabled_` in `service_callback`).

`EpollInterrupted` is the return of `run_until_empty` when a signal interrupts
`epoll_wait` (`epoll_event_loop.cpp:51`): the CAN thread ends, while the executor
goes on accepting what nobody sends any more. The fate of the socket after an
interface error belongs to `SocketCan`.

The drive is external: it is what it last received (axis state asked for,
mode, setpoint and the mode it came under, latched faults). `TxMayFail` makes
every write lose its frame nondeterministically. The heartbeat counter is kept
as the outcome of the waiter's comparison with it. Setpoint values are opaque;
scaling and inversion are left out.

### 2.2 DriveSystem

`CustomODriveNode` knows the drive by what it last received. `DriveSystem` adds
what the drive makes of it: `axis` is the state and procedure result its next
heartbeat reports. IDLE is obeyed; a motion is obeyed, or refused and reported
as failed, and always refused while a fault is latched. A procedure ends in
IDLE, a fault disarms, a reboot forgets mode, setpoint and faults. Heartbeats
wait in `rx`, in order, until the CAN thread reads them: `Receives` is
`RecvHeartbeat` of the oldest one, so that a heartbeat sent before a request can
be read after it. Every other step of the node is taken as it is (`Serves`),
with the effect of the frame it writes on the drive.

Two properties carry the latches on to the axis: `DisabledIsIdle` says what
`DisableSticks` means there, and `StopKeepsStill` that under a stop in effect
(`Stopped`) the axis does not start to move and takes no setpoint.

Two histories say what the other properties need: `seen` (since the call came the
drive was as asked for, or such a heartbeat was still unread then) and `forgot` (the
drive lost the mode the node sent last, by a lost frame or a reboot).

What the module shows of the code beyond its properties: a heartbeat that left
the drive before the request can confirm it (`SuccessIsTrue` has to allow the
unread ones), which the comment at `custom_odrive_node.cpp:400` calls fresh; and
a calibration is confirmed only by a heartbeat that reports the calibration's
axis state with a result other than BUSY, which a drive whose procedures end
in IDLE never sends, so that the call times out although the calibration
succeeded.

### 2.3 CanFrames, CanSimple

A word is the set of its bits that are one: shifting moves the members, masking
intersects, `|` is a union, so nothing is rounded and no width is lost. A field
is its first bit, its length and the width of its C++ type. A behaviour sends
one message after another: a buffer starts cleared, or holding anything
(`struct can_frame frame;` at `custom_odrive_node.cpp:484`, a caller's buffer
for `encode_buf`); the writer sets field by field; the first `can_dlc` bytes
go out; the receiver filters by id and length, and reads its own fields, with
anything beyond the bytes received. `node_id` is a `uint16_t` that nothing limits
(`custom_odrive_node.cpp:60`), while a standard frame carries six bits of it: a node
whose id ends in another drive's six bits commands that drive (`Readers`), and
above 63 takes none of its reports, so that a frame may find nobody. `CanSimple` pairs writers and readers: the
generated classes with themselves, the node's frames with the drive's layout,
the drive's with the cases of `recv_callback`.

`Agree` is the contract between two layouts. Two of its clauses are no
formality: `can_set_signal_raw` ORs in the whole union, whose upper bytes are
indeterminate for types shorter than eight bytes, so `encode_buf` is right only
because it writes its fields in ascending order; and a frame that is not
cleared must be filled by its fields. A Heartbeat encoded by its class leaves
such bits in 49 to 63, while `recv_callback` reads the byte at 6 as a `bool`:
the model's drive is taken to clear what it does not use, and a tool that simulates a drive with `encode_buf` on a buffer of
its own would not.

### 2.4 Feedback

Each cyclic message fills its fields one by one while the CAN thread holds the
record's mutex; `get_errors` and the answer of `request_axis_state` copy field
by field. The flags are the sets of their bits. A constant gives the sets of
messages the firmware may be configured to send: the drive's rates are set
message by message, so any set is possible.

### 2.5 Signal, EventLoop, SocketCan

`EventLoop` keeps the interest list, the batch, the counters of the eventfds
(zero or not), and the loop's program point. Deregistration clears the batch's
pointers of that context (`deregister_event`, the loop over
`triggered_events_`). `epoll_wait` may report any non-empty part of the ready
descriptors up to `BatchMax`, and may be interrupted at any time.
`Promise == INSTANCE Signal WITH ...` maps: live events are the registered
eventfds, pending ones those with a non-zero counter, the one served is the
one whose callback runs.

`SocketCan` adds what the number in `socket_id_` denotes: nothing, the socket,
a closed number, or a file that another thread opened since. The read loop,
pending interface errors and `broken_` follow `on_socket_event` and
`read_nonblocking`.

### 2.6 MotorNode, VelocityTest, Commission, Operators

For the scripts a service call is a queue entry, a step that serves it, and an
answer that finds its client still waiting or not; the interleaving inside the
node belongs to `CustomODriveNode`. Every wait of a script is left by what it
waits for or by its deadline, at any moment. The Fibre library is external:
`find_any` may find, fail or never return; other Fibre calls return or raise.
A calibration is run by `run_state`, or written and polled (`commission.py:306-331`);
the poll takes IDLE with SUCCESS, of this calibration or of one before it
(`PolledIdle`). The drive may refuse to calibrate. A drive that is lost while it
saves looks like one that reboots because it saved (`LostInSave`).
`Operators` runs both scripts once on the same motor.

## 3. Runs

| Run | Properties | Bounds and why they suffice |
|---|---|---|
| `node_safety` | `DisableSticks`, `LateSetpointIsFollowed`, `MailboxesFilled`, `NewestStateDelivered`, `FaultsClearedFirst`, `SetpointUnderItsMode`, `ShutdownLeavesIdle`, `StopHolds`, `StopComesThrough` | a velocity setpoint and a voltage one, whose mode is sent before the message is rejected; IDLE and CLOSED_LOOP, both values of /drivestop, all services; a node started disabled, with and without the startup frames; every race needs at most one request of each kind in flight, and calls repeat without bound |
| `node_liveness` | `DisableTakesEffect`, `StopTakesEffect`, `SetpointForwarded`, `ShutdownCompletes`, `SignalsServed` | one setpoint (a newer one only releases the obligation), CLOSED_LOOP requests whose wait may never end, heartbeats |
| `node_stop_race` | `StopReachesDrive` (violated) | finding 1 |
| `drive_requests` | `SuccessIsTrue`, `ReachedIsConfirmed` | closed loop and one calibration, frames lost or not, one heartbeat under way and one that the drive is about to send: enough for a heartbeat on either side of a request; faults and reboots at any time |
| `can_frames` | `LayoutsAgree`, `FieldsArrive`, `NoStrayBits`, `OnlyAddressee`, `ErrorsReported` | all 40 pairs of layouts; node ids that differ in one bit, in all, or in none of the low five, and one that equals another in the low six; words of zeros, of ones, and with the ends of all fields and unnamed error bits in them; unwritten memory all zeros or all ones |
| `feedback` | `AnswersNotTorn`, `EstimateWaitsForFullSet`, `StatusIsNews`, `FullOrPlainKeepsComing`, `ODriveStatusKeepsComing` | the firmware sends any choice of the four messages of `controller_status`, and with some of them all or one of those of `odrive_status`; one value besides "none" tells two versions of a field apart |
| `feedback_one_optional` | `MotionFeedbackKeepsComing` (violated) | finding 2; encoder estimates with any choice of Iq and torques |
| `event_loop` | `BatchIsLive`, `EventCount`, `SignalKept` | two EpollEvents, a socket and `stop_fd_` with batches of two: batches overflow, and callbacks deregister themselves and others of their batch |
| `socket_can` | `WatchesOnlySocket`, `HealthySendsReachSocket`, `FramesAreRead`, `LoopOutlivesSocket`, `StopReturns` | the code's batch of 16, two events, a receive queue of two frames (a drained and a not yet drained queue), other threads opening and closing files |
| `socket_can_stale_fd` | `SendReportsFailure` (violated) | finding 3 |
| `operators` | `IdleIsLastWord`, `ParkHolds`, `ExitCodeHonest`, `CommissionDecides`, `TestLeavesIdle`, `DisarmIsNoticed` | each script once; commissioning with `--ns --calibrate --save` or as bench mode without either; each service queue holds at most the four calls they make |
| `velocity_ctrl_c` | `NotLeftSpinning` (violated) | finding 4 |

What the properties say, beyond their comments:

* `DisableSticks` and `StopHolds` are the two safety promises of the latches.
  `StopHolds` needs no reliable bus. It starts from a stop "in effect" (`Stopped`);
  `StopComesThrough` is about how it comes into effect: unless a request had
  passed its check when the stop came, the stop's IDLE is under way and then the
  last word. So the interleaving of finding 1 is the only one that keeps a stop
  from the drive.
* `LateSetpointIsFollowed` answers the race that cannot be closed without a
  lock around the check and the write: a setpoint can pass a latch that is
  closing, but then the latch's IDLE is still to be sent.
* `NewestStateDelivered` says that the mailbox/eventfd handoff loses no
  wake-up: `on_trigger` resets the counter before the callback reads.
* `Signal` is implemented three times: by the loop (`SignalKept`), by the loop
  whose socket may go away (`LoopOutlivesSocket`), and by the node's own, smaller
  account of its three events (`SignalsServed`). That is how the command path and
  the event loop are composed: `CustomODriveNode` may leave out registration
  and full batches, because what it keeps is what `EventLoop` promises. `Signal`
  lets the loop return, so it says nothing of what is not served after that: the
  node has that step of its own.
* `BatchIsLive` protects from a deleted context, and from a blocking read of
  an eventfd that is zero.
* `SuccessIsTrue` and `ReachedIsConfirmed` are the two halves of what a caller of
  `request_axis_state` wants: success is never answered on the strength of a
  status the node had before, and a state that is reached, and stays, is
  confirmed by the time enough heartbeats came. That the deadline of the call
  may end it first is in the model (`ServiceReturn` may happen at any time).
* `ExitCodeHonest` says no more than the code does: exit code 0 means that the
  configuration was applied, that a calibration succeeded or, polled, found the
  axis in IDLE with a SUCCESS, and that a save was answered or the drive lost.
* `CachedModeIsTrue`, a theorem, names the exact price of sending the mode only on change: a
  lost mode frame or a reboot, and nothing else, leaves cache and drive apart,
  and they stay apart until another mode is commanded.
* `ParkHolds` has one exception by nature: somebody who calls
  `set_enabled(true)` after the park undoes it.
* `IdleIsLastWord` is what makes `TestLeavesIdle` true: after an uninterrupted test
  the drive is out of closed loop or the test's IDLE is behind all it asked for.
* The type invariants, `CachedModeIsTrue` and what the latches mean at the axis
  (`DisabledIsIdle`, `StopKeepsStill`) are theorems for every instance and have no
  run of their own.

Each property of a passing run comes with a mutant (an operator `Bad...` next to
the definition it replaces, in the module) that is a plausible bug and breaks
that property: the properties are not vacuous. `CHECK_DEADLOCK FALSE` is set
where the modelled program ends: `event_loop`, `socket_can*` (the loop returns
and everything is torn down) and the scripts' runs.

## 4. Fairness

* *Threads make progress.* Weak fairness on what a callback has begun, on the
  CAN thread, on `JoinAndDeinit`: the operating system schedules every thread.
  Nothing is assumed of the environment: nobody needs to publish, call or send.
* *Until the CAN thread ends.* A signal may interrupt its `epoll_wait` at any time,
  which no fairness asks for and none prevents. `DisableTakesEffect`,
  `StopTakesEffect`, `SetpointForwarded` and `ReachedIsConfirmed` promise delivery
  or that the thread has ended (`NobodySends`); nothing restarts it.
* *A wait is not progress.* A call that waits for its heartbeat has no
  fairness in `CustomODriveNode`: no liveness property relies on its return.
* *The bus is slower than the read loop.* The drain loop of `on_socket_event`
  ends only when the socket is empty. `SF(RecvDrained)` in `CustomODriveNode`
  and `[]<>(phase # "read")` in `SocketCan` say that it is empty now and then: a
  classic CAN bus carries some thousand frames per second.
* *`epoll_wait` is fair.* Strong fairness per handler in `EventLoop`: the
  kernel rotates its ready list, so that more ready descriptors than the batch
  holds are all reported in time. The interruption of `epoll_wait` has no fairness.
* *The drive keeps reporting.* In `DriveSystem` heartbeats are sent, reach the
  socket in their order, and are read: weak fairness on sending, strong fairness on
  reading, which the drain loop gives. No fairness makes the drive obey, end a
  procedure, or keep out of faults; `ReachedIsConfirmed` is released when it does
  not stay where it was asked to be.
* *Mutexes are not held for ever* and eventually granted: strong fairness on
  `FillFirst` and `PublishController` in `Feedback`; cyclic messages that are
  configured keep arriving.
* *Scripts.* The node serves its queues, status messages arrive, deadlines
  pass. `find_any` has no fairness at all.

## 5. Proofs

For every value of the constants, under the named assumptions only
(`InputsAssumption`, `DriveAssumption`, `FramesAssumption`, `FeedbackAssumption`,
`LoopAssumption`, `SocketAssumption`, `OperatorsAssumption`: sets of inputs do not
contain the marker for "no value", eventfds and sockets are different and
finite in number, and so on), TLAPS checks:

**CustomODriveNodeProofs.** `Spec => []` of `TypeOK`, `DisableSticks`,
`LateSetpointIsFollowed`, `MailboxesFilled`, `NewestStateDelivered`,
`FaultsClearedFirst`, `SetpointUnderItsMode`, `ShutdownLeavesIdle`, and
`Spec =>` `StopHolds` and `StopComesThrough`. The safety invariants are not inductive one by one, for
two reasons. First, each looks only at the moment when nothing is in flight;
the invariant must say what may be in flight meanwhile:

* `Filled`: a thread between the store and the wake-up has stored;
* `Handoff`: the copy the CAN thread is about to send is the newest value
  unless another wake-up is pending;
* `Disabled`: a motor that was disabled has no motion in its mailbox, and a
  motion in the CAN thread's copy is followed by another wake-up;
* `ModeCached`: the cached mode is the drive's.

Second, they hold only because the phases of `main()` exclude some steps
(`Phases`): no callback before `spin`, none after it, no CAN thread at
`deinit`. `IInv` is their conjunction, in two parts: `Core` does not depend on
what the drive does of its own, `Passive` (`FaultsClearedFirst`, `ModeCached`) is
true only of a drive that neither faults nor reboots. The lemmas about frames
(`StateRequestSent`, `SetpointSent`...) say what a frame, sent or lost, changes
of the drive. `StopHolds` is an action property and follows from `IInv` and a
case analysis of the steps. For `StopComesThrough` the invariant is `Told`: while
a stop is under way and the CAN thread has caught up, the drive was told IDLE
last; `UnderWayStep` shows that nothing but a request past its check ends
"under way". `NodeImplementsSignal` (`Spec => Signals!Spec`) needs one fact more,
that a batch holds only events that are still signalled (`Batched`).

**DriveSystemProofs.** `TypeOK /\ DriveTypeOK`, `SuccessIsTrue`,
`CachedModeIsTrue` and `StopKeepsStill` of `SysSpec`, with frames lost, faults and
reboots; `DisabledIsIdle`, which like all that says what the drive was told needs a bus
that loses none (`~TxMayFail`). The proof reuses the type invariant of the base module: every step of the system is a step
of the node, a heartbeat read, or a step of the drive. For `SuccessIsTrue` the
invariant ties the waiter's `fresh` flag and the status it compares to what was
seen: an unread heartbeat that fits was seen (`QueueSeen`), what is seen stays
seen until the call returns (`SeenStays`), and a status confirms only if it came
in after the call began to wait. For `CachedModeIsTrue` the only step that can
part cache and drive is the write of a mode frame (`ModeSent`), all others keep
both (`ModeKept`). The theorems about the latches take `Core` over from
`CustomODriveNodeProofs`, as an invariant of the system (`LatchIInv`, with
`IdleIsObeyed`: an axis that was told IDLE last is in IDLE). So the node's theorems hold with
the drive, too (`NodeTheoremsInSystem`, `SystemImplementsSignal`), and are carried on to
the axis: `ShutdownIsIdleTheorem` and `StopReachesAxisTheorem` are
`ShutdownLeavesIdle` and `StopComesThrough` there.

**CanFramesProofs.** For every set of transfers: `Agree(transfer)` implies
`FieldsArrive`, `NoStrayBits` and `ErrorsReported`; `OnlyAddressee` for every set
of 16-bit node ids: a command is taken by the drive whose id is the node id modulo
64, a report by the nodes that have the drive's id, and by no others. The invariant describes the buffer after each field (what was
written is there, what is still to come may be anything, the rest is as it
was).

**CanSimpleProofs.** `LayoutsAgree` if what is sent are the messages of the code
(`Transfers \subseteq AllTransfers`), and with the theorems above `WholeMessages`:
all of them arrive, for all values, ids and contents of memory nobody wrote. The
fields of every generated class lie one after the other in its bytes
(`MessagesLaid`); a layout in order agrees with itself (`OneLayoutAgrees`); the
node's layouts are those of the classes (`SameFields`), but for the last field
of a heartbeat.

**FeedbackProofs.** `TypeOK`, `AnswersNotTorn`, `EstimateWaitsForFullSet`,
`StatusIsNews`; and `StuckTheorem`: once Iq has
come from a drive that sends no torques, `controller_status` is never
published again. The invariant says that the flags are exactly the messages
that came since the last publication (`FlagsAreNews`), that nothing
publishable is left outside the test (`NothingOverdue`), and that a pair of
fields differs only under the writer's lock (`PairsWhole`).

**EventLoopProofs.** `TypeOK`, `EventCount`, `BatchIsLive`, and
`ImplementsSignal`: `Spec => Promise!Spec`, every step of the loop is a step of
`Signal` or leaves its variables alone.

**SocketCanProofs.** `SocketTypeOK`, `WatchesOnlySocket`, and
`HealthySendsReachSocket` if the loop has an EpollEvent, as the node's has (frames are
sent only once events and socket were set up). Each step is shown to be one of
the loop (`LoopActs`), which keeps the invariant of `EventLoopProofs`; what is added
relates `broken_` and the number's fate to the phases of the loop (`Descriptor`).
`SocketImplementsSignal`: a loop whose socket fails and is closed, twice, still
keeps the promise of `Signal`.

**OperatorsProofs.** `TypeOK`, `ExitCodeHonest`, `ParkHolds` and `IdleIsLastWord` of
the two scripts on one motor, for any command lines and either way to calibrate. The scripts' promises rest on the
order of requests in one service's queue. `Ordered`: while the commission
waits for its `set_enabled(False)`, that request has no enabling one behind it, or
was served and none is left. `Tidy`: once the test's IDLE is called, no
closed-loop request is behind it in the queue. Requests of clients that gave up stay in both,
which is why the invariants speak of queues and not of answers. `Progress`
collects what each stage of the commission has done by then.

**Only model-checked:** liveness, which is out of the prover's reach: the five
properties of `node_liveness`, `ReachedIsConfirmed`, `FullOrPlainKeepsComing`,
`ODriveStatusKeepsComing`, `FramesAreRead`, `StopReturns`, `CommissionDecides`,
`TestLeavesIdle`, `DisarmIsNoticed`, and the fairness part of `SignalKept`,
`SignalsServed` and `LoopOutlivesSocket`. Every invariant a run checks is a theorem.

## 6. Findings

1. *`node_stop_race`* (`custom_odrive_node.cpp:375`). A CLOSED_LOOP request that
   passed its /drivestop check before the stop arrived stores `axis_state_`
   after the stop's IDLE: the CAN thread sends only CLOSED_LOOP, and a repeated
   `true` queues no further IDLE. `StopComesThroughTheorem`: there is no other
   interleaving with that outcome.
2. *`feedback_one_optional`* (`custom_odrive_node.cpp:327`). If the drive sends one of
   Iq and torques without the other, the flags reach a set that is none of the
   three that publish, and `controller_status` stops for good, although the comment
   at :11-13 promises motion feedback with optional messages disabled. `StuckTheorem`
   proves it for every set of messages that has Iq and no torques.
3. *`socket_can_stale_fd`* (`socket_can.cpp:81`). After the interface went away,
   `send_can_frame` writes to a number that may be another file's by now and
   reports success.
4. *`velocity_ctrl_c`* (`velocity_ramp_test.py:247`). Ctrl-C shuts the rclpy
   context down, and the clean-up then neither zeroes the velocity nor requests
   IDLE, although it promises to "always try".

Also met, without a run of their own:

* The mode frame of voltage control, or of an unknown mode, is sent and cached
  before the message is rejected (`:518-535`); `node_safety` has such a message.
* `run_until_empty` returns when `epoll_wait` is interrupted (EINTR), while
  `epoll_event_loop.hpp:46` says that it blocks until `request_stop()` or no
  events remain (`EpollInterrupted`). The node then goes on answering its services
  and accepting setpoints and stops, and none of them reaches the drive.
* `commission.py` exits 0 although nothing may have been saved: any exception that
  names a lost device counts as the reboot after a save (:347-351, against
  "Persist RAM config to NVRAM" at :335). The polled calibration may take an
  old SUCCESS for its own (:313-331, against "fail on non-success" at :268).
* A `node_id` above 63 is taken as it is: its commands go to another drive
  (section 2.3).
* A blocked `find_any` worker is joined by the interpreter at exit: a wrong
  serial number can still hang the process after `main()` gave up, against
  `commission.py:203` and `:258` (`ProcessEnds` waits for the worker).
* A calibration asked for through `request_axis_state` times out (section 2.2).
* `can_get_signal_raw` copies 64 bytes from a buffer of eight
  (`can_helpers.hpp:15`, `:26`; `can_set_signal_raw` has `N = 8`). The node does not
  call it; only the eight bytes that are used are modelled.
* The second `deinit` closes `socket_id_` again, whatever it denotes by then; and
  the socket's handler deletes the `std::function` it is running in when it
  deregisters itself (`epoll_event_loop.cpp:43`). It touches no capture afterwards.

## 7. Not modelled

* Numbers: unit conversion, inversion, and the feedforward casts to `int16_t`,
  whose result is undefined out of range. TLC has no floating point, and an
  integer stand-in would show the stand-in.
* Extended and remote frames: the filter (`custom_odrive_node.cpp:246`) looks at
  the id's low bits only, and the models have standard data frames only.
* The big-endian branches of `can_helpers.hpp`, the factor and offset of its scaled
  variants (`Set_Input_Pos`, `can_simple_messages.hpp:320-327`, calls them; its fields
  are modelled), and most constants of `odrive_enums.h`.
* Reading the motor configuration file, command lines that do not parse, log
  messages, launch files, containers.
* `get_errors` as the velocity test calls it (it only prints), Ctrl-C during
  commissioning.
* Middleware: topics neither lose nor delay messages beyond what the callbacks'
  interleaving gives; several nodes on one bus share the ids (`CanFrames`) and
  bandwidth.

## 8. Plan

Done: all modules of section 2, and the safety of each as theorems. Left, most
important first:

1. An abstract specification of the two latches (a motion is accepted, a latch
   closes, the drive is told to stop) and the proof that `CustomODriveNode`
   implements it; `StopHolds`, `StopComesThrough` and `DisableSticks` would follow from it.
2. `MotorNode` as an abstraction of `DriveSystem`: that a service call of the
   scripts' model is what a call of the node does, so that `ParkHolds` and
   `DisabledIsIdle` meet.
3. The effect of `DisabledIsIdle` when frames are lost: which requests are
   repeated, and by whom.
