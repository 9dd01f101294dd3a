-------------------------- MODULE CustomODriveNode --------------------------
(***************************************************************************)
(* The command path of custom_odrive_node: how setpoints, axis-state       *)
(* requests, the enable latch and /drivestop, handled on ROS executor      *)
(* threads, reach the drive through the CAN thread.                        *)
(*                                                                         *)
(* Threads (main.cpp, the constructor's callback groups):                  *)
(*   "sub"   the mutually exclusive group of control_message and           *)
(*           /drivestop callbacks: at most one of them runs at a time;     *)
(*   "srv"   the mutually exclusive group of the four services;            *)
(*   "can"   the epoll thread, which alone writes frames while it runs;    *)
(*   "main"  init, spin, request_stop, join, deinit.                       *)
(* A step is one access to state another thread can see: an atomic load or *)
(* store, a critical section, an eventfd write or read, a frame written.   *)
(*                                                                         *)
(* Abstractions: an eventfd is the Boolean "its counter is not zero"; the  *)
(* heartbeat counter is `fresh', a waiter's comparison with it;            *)
(* of a heartbeat only axis state and procedure result are kept; setpoint  *)
(* values are opaque.  The drive (external) is what it received last.      *)
(*                                                                         *)
(* An operator whose name starts with "Bad" is the next definition with a  *)
(* bug in it; it stands in for that definition when a property is tested.  *)
(***************************************************************************)

CONSTANTS
  ControlMessages,  \* messages published on control_message
  AxisRequests,     \* axis states callers of request_axis_state ask for
  DrivestopMsgs,    \* values published on /drivestop
  Calls,            \* other services callers use
  Heartbeats,       \* heartbeat contents the drive may send
  Launches,         \* parameter sets the node may be launched with
  TxMayFail         \* whether write() on the CAN socket may fail (ENOBUFS)

NoValue     == "none"
IDLE        == "IDLE"          \* AXIS_STATE_IDLE
CLOSED_LOOP == "CLOSED_LOOP"   \* AXIS_STATE_CLOSED_LOOP_CONTROL
UNDEFINED   == "UNDEFINED"     \* AXIS_STATE_UNDEFINED, value 0
BUSY        == "BUSY"          \* PROCEDURE_RESULT_BUSY

\* The control modes ctrl_msg_callback has a setpoint frame for.
SupportedModes == {"torque", "velocity", "position"}

Threads == {"sub", "srv", "can", "main"}
Events  == {"sub", "srv", "clr", "sock", "stop"}

LaunchParams == [start_enabled : BOOLEAN,
                 idle_on_startup : BOOLEAN, idle_on_shutdown : BOOLEAN]

NoMessage == [control_mode |-> NoValue, input_mode |-> NoValue, value |-> NoValue]
\* ControlMessage(): every field is zero, and control mode 0 is voltage.
DefaultMessage == [control_mode |-> "voltage", input_mode |-> "inactive",
                   value |-> "zero"]
NoMode == [control |-> NoValue, input |-> NoValue]
ModeOf(m) == [control |-> m.control_mode, input |-> m.input_mode]

ASSUME InputsAssumption ==
  /\ \A m \in ControlMessages :
        /\ m = [control_mode |-> m.control_mode, input_mode |-> m.input_mode,
                value |-> m.value]
        /\ m.control_mode # NoValue
  /\ NoValue \notin AxisRequests
  /\ DrivestopMsgs \subseteq BOOLEAN
  /\ Calls \subseteq {"enable", "disable", "clear_errors"}
  /\ \A h \in Heartbeats :
        h = [axis_state |-> h.axis_state, procedure_result |-> h.procedure_result]
  /\ Launches \subseteq LaunchParams
  /\ TxMayFail \in BOOLEAN

-----------------------------------------------------------------------------
VARIABLES
  param,             \* the parameters read by init()
  enabled,           \* enabled_
  drivestop_active,  \* drivestop_active_
  axis_state,        \* axis_state_, NoValue while uninitialized
  ctrl_msg,          \* ctrl_msg_
  evt,               \* sub_evt_, srv_evt_, srv_clear_errors_evt_, the socket
                     \* and stop_fd_: readable or not
  ctrl_stat,         \* the heartbeat part of ctrl_stat_
  fresh,             \* heartbeat_sequence_ > initial_heartbeat_sequence of a
                     \* call that waits
  mode_sent,         \* controller_mode_sent_, last_control_mode_,
                     \* last_input_mode_; NoMode while nothing was sent
  pc,                \* where each thread is
  sub_msg,           \* the message subscriber_callback is about to store
  srv_req,           \* axis_requested_state of the call being served
  can_state,         \* request_state_callback's local axis_state
  can_msg,           \* ctrl_msg_callback's local ctrl_msg
  ready,             \* the rest of the batch epoll_wait returned
  drive              \* external: what the drive received last

latches == <<enabled, drivestop_active>>
mail    == <<axis_state, ctrl_msg>>
status  == <<ctrl_stat, fresh>>
canVars == <<can_state, can_msg, ready, mode_sent>>
vars == <<param, latches, mail, evt, status, pc, sub_msg, srv_req,
          canVars, drive>>

\* Thread t goes from one program point to another.
Goto(t, from, to) == pc[t] = from /\ pc' = [pc EXCEPT ![t] = to]

Spinning      == pc["main"] = "spin"
StopRequested == pc["main"] \in {"joining", "down"}

-----------------------------------------------------------------------------
(* Frames and the drive.  A write the kernel refuses loses the frame: no   *)
(* caller of send_can_frame looks at its result.                           *)

Sent(before, after) == {after} \cup IF TxMayFail THEN {before} ELSE {}

ClearErrors(d)          == [d EXCEPT !.fault = FALSE]
SetAxisState(d, s)      == [d EXCEPT !.requested = s]
SetControllerMode(d, m) == [d EXCEPT !.mode = ModeOf(m)]
SetInput(d, m)          == [d EXCEPT !.setpoint = m, !.setpoint_mode = d.mode]

SendClearErrors(d)   == Sent(d, ClearErrors(d))
SendAxisState(d, s)  == Sent(d, SetAxisState(d, s))

\* Errors are cleared only before a motion.
BadSendStateRequest(d, s) ==
  UNION {SendAxisState(e, s) : e \in IF s \in {UNDEFINED, IDLE} THEN {d} ELSE SendClearErrors(d)}

\* ClearErrors, unless state 0 is asked for, and then Set_Axis_State.
SendStateRequest(d, s) ==
  UNION {SendAxisState(e, s) : e \in IF s = UNDEFINED THEN {d} ELSE SendClearErrors(d)}

\* Set_Controller_Mode when the mode pair differs from the one last sent,
\* then the setpoint frame of the control mode, if there is one.
SendSetpoint(d, m) ==
  LET afterMode == IF mode_sent # ModeOf(m)
                   THEN Sent(d, SetControllerMode(d, m)) ELSE {d}
  IN IF m.control_mode \in SupportedModes
     THEN UNION {Sent(e, SetInput(e, m)) : e \in afterMode}
     ELSE afterMode

-----------------------------------------------------------------------------
(* The sub group: control_message and /drivestop.                          *)

\* Both latches allow motion.  The group runs one callback at a time, so
\* /drivestop cannot change between the two loads: the check is one step.
\* A message that arrives while blocked is dropped and changes nothing.
SubscriberCallback(m) ==
  /\ Spinning
  /\ enabled /\ ~drivestop_active
  /\ Goto("sub", "idle", "store_msg")
  /\ sub_msg' = m
  /\ UNCHANGED <<param, latches, mail, evt, status, srv_req, canVars, drive>>

\* One callback group for everything: the store waits for the services.
BadSubscriberStore ==
  /\ pc["srv"] = "idle"
  /\ Goto("sub", "store_msg", "idle")
  /\ ctrl_msg' = sub_msg
  /\ sub_msg' = NoMessage
  /\ evt' = [evt EXCEPT !["sub"] = TRUE]
  /\ UNCHANGED <<param, latches, axis_state, status, srv_req, canVars, drive>>

\* Under ctrl_msg_mutex_: the store and the eventfd write.
SubscriberStore ==
  /\ Goto("sub", "store_msg", "idle")
  /\ ctrl_msg' = sub_msg
  /\ sub_msg' = NoMessage
  /\ evt' = [evt EXCEPT !["sub"] = TRUE]
  /\ UNCHANGED <<param, latches, axis_state, status, srv_req, canVars, drive>>

\* false releases the stop; true asserts it, and only the transition to
\* asserted queues an IDLE.
DrivestopCallback(stop) ==
  /\ Spinning
  /\ Goto("sub", "idle", IF stop /\ ~drivestop_active THEN "store_idle" ELSE "idle")
  /\ drivestop_active' = stop
  /\ UNCHANGED <<param, enabled, mail, evt, status, sub_msg, srv_req,
                 canVars, drive>>

-----------------------------------------------------------------------------
(* request_idle_on_can, called by drivestop_callback and by                *)
(* set_enabled(false): store under axis_state_mutex_, then wake the CAN    *)
(* thread.                                                                 *)

\* A request the CAN thread has not yet served is left alone.
BadRequestIdleStore(t) ==
  /\ Goto(t, "store_idle", "set_idle")
  /\ axis_state' = IF evt["srv"] THEN axis_state ELSE IDLE
  /\ UNCHANGED <<param, latches, ctrl_msg, evt, status, sub_msg, srv_req, canVars, drive>>

\* The wake-up comes before the store.
BadRequestIdleWakesFirst(t) ==
  /\ Goto(t, "store_idle", "set_idle")
  /\ evt' = [evt EXCEPT !["srv"] = TRUE]
  /\ UNCHANGED <<param, latches, mail, status, sub_msg, srv_req, canVars, drive>>

RequestIdleStore(t) ==
  /\ Goto(t, "store_idle", "set_idle")
  /\ axis_state' = IDLE
  /\ UNCHANGED <<param, latches, ctrl_msg, evt, status, sub_msg, srv_req,
                 canVars, drive>>

\* The CAN thread is not woken.
BadRequestIdleSet(t) ==
  /\ Goto(t, "set_idle", "idle")
  /\ UNCHANGED <<param, latches, mail, evt, status, sub_msg, srv_req, canVars, drive>>

RequestIdleSet(t) ==
  /\ Goto(t, "set_idle", "idle")
  /\ evt' = [evt EXCEPT !["srv"] = TRUE]
  /\ UNCHANGED <<param, latches, mail, status, sub_msg, srv_req, canVars, drive>>

-----------------------------------------------------------------------------
(* The srv group: request_axis_state, set_enabled, clear_errors.           *)
(* get_errors only reads and is not an action.  Answers are not kept.      *)

\* enabled_ is written in this group only, so the load of drivestop_active_
\* decides together with a latch that cannot change meanwhile.  A call that
\* is rejected changes nothing.
\* enabled_ is not checked.
BadAcceptDisabled(s) ==
  /\ Spinning
  /\ s = IDLE \/ ~drivestop_active
  /\ Goto("srv", "idle", "store_request")
  /\ srv_req' = s
  /\ UNCHANGED <<param, latches, mail, evt, status, sub_msg, canVars, drive>>

\* drivestop_active_ is not checked.
BadAcceptStopped(s) ==
  /\ Spinning
  /\ s = IDLE \/ enabled
  /\ Goto("srv", "idle", "store_request")
  /\ srv_req' = s
  /\ UNCHANGED <<param, latches, mail, evt, status, sub_msg, canVars, drive>>

ServiceAccept(s) ==
  /\ Spinning
  /\ s = IDLE \/ (~drivestop_active /\ enabled)
  /\ Goto("srv", "idle", "store_request")
  /\ srv_req' = s
  /\ UNCHANGED <<param, latches, mail, evt, status, sub_msg, canVars, drive>>

ServiceStore ==
  /\ Goto("srv", "store_request", "set_request")
  /\ axis_state' = srv_req
  /\ UNCHANGED <<param, latches, ctrl_msg, evt, status, sub_msg, srv_req,
                 canVars, drive>>

ServiceSet ==
  /\ Goto("srv", "set_request", "begin_wait")
  /\ evt' = [evt EXCEPT !["srv"] = TRUE]
  /\ UNCHANGED <<param, latches, mail, status, sub_msg, srv_req, canVars, drive>>

\* Under ctrl_stat_mutex_: remember the heartbeat sequence, start to wait.
ServiceBeginWait ==
  /\ Goto("srv", "begin_wait", "waiting")
  /\ fresh' = FALSE
  /\ UNCHANGED <<param, latches, mail, evt, ctrl_stat, sub_msg, srv_req,
                 canVars, drive>>

\* The status the node has will do.
BadConfirmedStale ==
  /\ ctrl_stat.axis_state = srv_req
  /\ srv_req = CLOSED_LOOP \/ ctrl_stat.procedure_result # BUSY

\* The end of the procedure is waited for, of closed loop too.
BadConfirmedBusy ==
  /\ fresh
  /\ ctrl_stat.axis_state = srv_req
  /\ ctrl_stat.procedure_result # BUSY

\* The predicate of wait_for.
Confirmed ==
  /\ fresh
  /\ ctrl_stat.axis_state = srv_req
  /\ srv_req = CLOSED_LOOP \/ ctrl_stat.procedure_result # BUSY

\* The waiter holds the mutex again.  It answers success if the predicate is
\* true; else the timeout has passed and it answers timed_out.  Between a
\* confirming heartbeat and the waiter's turn another one may undo it.
ServiceReturn ==
  /\ Goto("srv", "waiting", "idle")
  /\ srv_req' = NoValue
  /\ fresh' = FALSE
  /\ UNCHANGED <<param, latches, mail, evt, ctrl_stat, sub_msg, canVars, drive>>

\* The answer a call gives that returns now.
Succeeds == pc["srv"] = "waiting" /\ Confirmed

ServiceClearErrors ==
  /\ Spinning /\ pc["srv"] = "idle"
  /\ evt' = [evt EXCEPT !["clr"] = TRUE]
  /\ UNCHANGED <<param, latches, mail, status, pc, sub_msg, srv_req,
                 canVars, drive>>

\* set_enabled(true) loads drivestop_active_ and then stores enabled_;
\* while stopped it is refused and changes nothing.
SetEnabledCheck ==
  /\ Spinning /\ ~drivestop_active
  /\ Goto("srv", "idle", "store_enabled")
  /\ UNCHANGED <<param, latches, mail, evt, status, sub_msg, srv_req,
                 canVars, drive>>

SetEnabledStore ==
  /\ Goto("srv", "store_enabled", "idle")
  /\ enabled' = TRUE
  /\ UNCHANGED <<param, drivestop_active, mail, evt, status, sub_msg,
                 srv_req, canVars, drive>>

\* No IDLE is requested.
BadSetDisabled ==
  /\ Spinning /\ pc["srv"] = "idle"
  /\ enabled' = FALSE
  /\ UNCHANGED <<param, drivestop_active, mail, evt, status, pc, sub_msg,
                 srv_req, canVars, drive>>

SetDisabled ==
  /\ Spinning
  /\ Goto("srv", "idle", "store_idle")
  /\ enabled' = FALSE
  /\ UNCHANGED <<param, drivestop_active, mail, evt, status, sub_msg,
                 srv_req, canVars, drive>>

-----------------------------------------------------------------------------
(* The CAN thread: run_until_empty and the callbacks it dispatches.        *)

\* The end of a batch, and the loop condition.  stop_fd_ stays registered, so
\* n_events_ is never 0.
LoopCheck ==
  /\ ready = {}
  /\ Goto("can", "batch", IF StopRequested THEN "exited" ELSE "wait")
  /\ UNCHANGED <<param, latches, mail, evt, status, sub_msg, srv_req, canVars, drive>>

EpollWait ==
  /\ \E e \in Events : evt[e]
  /\ Goto("can", "wait", "batch")
  /\ ready' = {e \in Events : evt[e]}
  /\ UNCHANGED <<param, latches, mail, evt, status, sub_msg, srv_req,
                 can_state, can_msg, mode_sent, drive>>

\* epoll_wait returns -1, as it does when a signal handler ran on this thread
\* or the process was stopped and continued: run_until_empty returns, and
\* nothing but the end of the process looks at that.  The executor spins on.
EpollInterrupted ==
  /\ Goto("can", "wait", "exited")
  /\ UNCHANGED <<param, latches, mail, evt, status, sub_msg, srv_req, canVars, drive>>

\* The kernel orders a batch; any order is possible.  on_trigger reads the
\* eventfd, which resets it, before the callback runs.
OnTrigger(e, handler) ==
  /\ e \in ready
  /\ Goto("can", "batch", handler)
  /\ ready' = ready \ {e}
  /\ evt' = [evt EXCEPT ![e] = FALSE]
  /\ UNCHANGED <<param, latches, mail, status, sub_msg, srv_req,
                 can_state, can_msg, mode_sent, drive>>

\* on_socket_event; the socket stays readable until it is drained.
OnSocket ==
  /\ "sock" \in ready
  /\ Goto("can", "batch", "recv")
  /\ ready' = ready \ {"sock"}
  /\ UNCHANGED <<param, latches, mail, evt, status, sub_msg, srv_req,
                 can_state, can_msg, mode_sent, drive>>

\* recv_callback on a heartbeat of this node.
RecvHeartbeat(h) ==
  /\ pc["can"] = "recv" /\ evt["sock"]
  /\ evt' = [evt EXCEPT !["sock"] = FALSE]
  /\ ctrl_stat' = h
  /\ fresh' = (pc["srv"] = "waiting")
  /\ UNCHANGED <<param, latches, mail, pc, sub_msg, srv_req, canVars, drive>>

\* recv_callback on a frame of another node or one of the wrong length.
RecvIgnored ==
  /\ pc["can"] = "recv" /\ evt["sock"]
  /\ evt' = [evt EXCEPT !["sock"] = FALSE]
  /\ UNCHANGED <<param, latches, mail, status, pc, sub_msg, srv_req,
                 canVars, drive>>

\* The read loop meets EAGAIN.
RecvDrained ==
  /\ ~evt["sock"]
  /\ Goto("can", "recv", "batch")
  /\ UNCHANGED <<param, latches, mail, evt, status, sub_msg, srv_req,
                 canVars, drive>>

\* request_state_callback: copy under axis_state_mutex_, then send.
RequestStateRead ==
  /\ Goto("can", "state", "state_send")
  /\ can_state' = axis_state
  /\ UNCHANGED <<param, latches, mail, evt, status, sub_msg, srv_req,
                 can_msg, ready, mode_sent, drive>>

\* The eventfd is read after the callback: a request made meanwhile is lost.
BadRequestStateSend ==
  /\ Goto("can", "state_send", "batch")
  /\ drive' \in SendStateRequest(drive, can_state)
  /\ can_state' = NoValue
  /\ evt' = [evt EXCEPT !["srv"] = FALSE]
  /\ UNCHANGED <<param, latches, mail, status, sub_msg, srv_req, can_msg, ready, mode_sent>>

RequestStateSend ==
  /\ Goto("can", "state_send", "batch")
  /\ drive' \in SendStateRequest(drive, can_state)
  /\ can_state' = NoValue
  /\ UNCHANGED <<param, latches, mail, evt, status, sub_msg, srv_req,
                 can_msg, ready, mode_sent>>

\* request_clear_errors_callback.
RequestClearErrors ==
  /\ Goto("can", "clear", "batch")
  /\ drive' \in SendClearErrors(drive)
  /\ UNCHANGED <<param, latches, mail, evt, status, sub_msg, srv_req, canVars>>

\* ctrl_msg_callback: commands_allowed loads the latches one after the
\* other, and both may change in between.
CtrlLoadEnabled ==
  /\ Goto("can", "ctrl", IF enabled THEN "ctrl_stop" ELSE "batch")
  /\ UNCHANGED <<param, latches, mail, evt, status, sub_msg, srv_req,
                 canVars, drive>>

CtrlLoadDrivestop ==
  /\ Goto("can", "ctrl_stop", IF drivestop_active THEN "batch" ELSE "ctrl_copy")
  /\ UNCHANGED <<param, latches, mail, evt, status, sub_msg, srv_req,
                 canVars, drive>>

CtrlCopy ==
  /\ Goto("can", "ctrl_copy", "ctrl_send")
  /\ can_msg' = ctrl_msg
  /\ UNCHANGED <<param, latches, mail, evt, status, sub_msg, srv_req,
                 can_state, ready, mode_sent, drive>>

\* The mode is remembered only with a setpoint frame.
BadCtrlSend ==
  /\ Goto("can", "ctrl_send", "batch")
  /\ drive' \in SendSetpoint(drive, can_msg)
  /\ mode_sent' = IF can_msg.control_mode \in SupportedModes THEN ModeOf(can_msg) ELSE mode_sent
  /\ can_msg' = NoMessage
  /\ UNCHANGED <<param, latches, mail, evt, status, sub_msg, srv_req,
                 can_state, ready>>

CtrlSend ==
  /\ Goto("can", "ctrl_send", "batch")
  /\ drive' \in SendSetpoint(drive, can_msg)
  /\ mode_sent' = ModeOf(can_msg)
  /\ can_msg' = NoMessage
  /\ UNCHANGED <<param, latches, mail, evt, status, sub_msg, srv_req,
                 can_state, ready>>

-----------------------------------------------------------------------------
(* The main thread.                                                        *)

\* init() reads the parameters, opens the socket, registers the events and
\* sends the startup frames; then the CAN thread starts and spin() runs.
NodeInit ==
  /\ pc["main"] = "init"
  /\ pc' = [pc EXCEPT !["main"] = "spin", !["can"] = "batch"]
  /\ enabled' = param.start_enabled
  /\ drive' \in IF param.idle_on_startup THEN SendStateRequest(drive, IDLE) ELSE {drive}
  /\ UNCHANGED <<param, drivestop_active, mail, evt, status, sub_msg,
                 srv_req, canVars>>

\* A bad timeout parameter, or the socket or an eventfd cannot be set up:
\* main returns before any thread starts.
NodeInitFails ==
  /\ Goto("main", "init", "failed")
  /\ UNCHANGED <<param, latches, mail, evt, status, sub_msg, srv_req,
                 canVars, drive>>

\* spin() returns once its worker threads are out of their callbacks; then
\* request_stop sets stop_requested_ and wakes epoll_wait.
\* epoll_wait is not woken.
BadSpinReturns ==
  /\ pc["sub"] = "idle" /\ pc["srv"] = "idle"
  /\ Goto("main", "spin", "joining")
  /\ UNCHANGED <<param, latches, mail, evt, status, sub_msg, srv_req, canVars, drive>>

SpinReturns ==
  /\ pc["sub"] = "idle" /\ pc["srv"] = "idle"
  /\ Goto("main", "spin", "joining")
  /\ evt' = [evt EXCEPT !["stop"] = TRUE]
  /\ UNCHANGED <<param, latches, mail, status, sub_msg, srv_req, canVars, drive>>

\* The CAN thread is joined before deinit writes its frame.
\* The CAN thread still runs.
BadJoinAndDeinit ==
  /\ Goto("main", "joining", "down")
  /\ drive' \in IF param.idle_on_shutdown THEN SendAxisState(drive, IDLE) ELSE {drive}
  /\ UNCHANGED <<param, latches, mail, evt, status, sub_msg, srv_req, canVars>>

JoinAndDeinit ==
  /\ pc["can"] = "exited"
  /\ Goto("main", "joining", "down")
  /\ drive' \in IF param.idle_on_shutdown THEN SendAxisState(drive, IDLE) ELSE {drive}
  /\ UNCHANGED <<param, latches, mail, evt, status, sub_msg, srv_req, canVars>>

\* The process has ended.
Ended ==
  /\ pc["main"] \in {"down", "failed"}
  /\ UNCHANGED vars

-----------------------------------------------------------------------------
(* The bus, external: a frame arrives.                                     *)

FrameArrives ==
  /\ pc["main"] \in {"spin", "joining"} /\ ~evt["sock"]
  /\ evt' = [evt EXCEPT !["sock"] = TRUE]
  /\ UNCHANGED <<param, latches, mail, status, pc, sub_msg, srv_req,
                 canVars, drive>>

-----------------------------------------------------------------------------
Init ==
  /\ param \in Launches
  /\ enabled = TRUE
  /\ drivestop_active = FALSE
  /\ axis_state = NoValue
  /\ ctrl_msg = DefaultMessage
  /\ evt = [e \in Events |-> FALSE]
  /\ ctrl_stat = [axis_state |-> UNDEFINED, procedure_result |-> "SUCCESS"]
  /\ fresh = FALSE
  /\ mode_sent = NoMode
  /\ pc = [t \in Threads |-> CASE t = "main" -> "init"
                               [] t = "can"  -> "off"
                               [] OTHER      -> "idle"]
  /\ sub_msg = NoMessage
  /\ srv_req = NoValue
  /\ can_state = NoValue
  /\ can_msg = NoMessage
  /\ ready = {}
  /\ \E f \in BOOLEAN :
       drive = [requested |-> NoValue, fault |-> f, mode |-> NoMode,
                setpoint |-> NoMessage, setpoint_mode |-> NoMode]

\* What a group does once a callback has begun; a callback always ends.
SubContinues ==
  \/ SubscriberStore
  \/ RequestIdleStore("sub")
  \/ RequestIdleSet("sub")

SrvContinues ==
  \/ RequestIdleStore("srv")
  \/ RequestIdleSet("srv")
  \/ ServiceStore
  \/ ServiceSet
  \/ ServiceBeginWait
  \/ ServiceReturn
  \/ SetEnabledStore

CallbackBegins ==
  \/ \E m \in ControlMessages : SubscriberCallback(m)
  \/ \E b \in DrivestopMsgs : DrivestopCallback(b)
  \/ \E s \in AxisRequests : ServiceAccept(s)
  \/ "clear_errors" \in Calls /\ ServiceClearErrors
  \/ "enable" \in Calls /\ SetEnabledCheck
  \/ "disable" \in Calls /\ SetDisabled

CanServes ==
  \/ LoopCheck
  \/ EpollWait
  \/ OnTrigger("sub", "ctrl")
  \/ OnTrigger("srv", "state")
  \/ OnTrigger("clr", "clear")
  \/ OnTrigger("stop", "batch")
  \/ OnSocket
  \/ RecvIgnored
  \/ RecvDrained
  \/ RequestStateRead
  \/ RequestStateSend
  \/ RequestClearErrors
  \/ CtrlLoadEnabled
  \/ CtrlLoadDrivestop
  \/ CtrlCopy
  \/ CtrlSend

CanStep == CanServes \/ \E h \in Heartbeats : RecvHeartbeat(h)

MainStep ==
  \/ NodeInit
  \/ NodeInitFails
  \/ SpinReturns
  \/ JoinAndDeinit
  \/ Ended

Next == CallbackBegins \/ SubContinues \/ SrvContinues \/ CanStep \/ EpollInterrupted
          \/ MainStep \/ FrameArrives

Spec == Init /\ [][Next]_vars

\* A callback that has begun goes on, but for a request_axis_state call that
\* waits: nothing below may depend on when it ends.  The CAN thread goes on
\* until its wait is interrupted, and now and then it drains the socket
\* although frames keep arriving: the bus is slower than the loop that reads
\* it.
Fairness ==
  /\ WF_vars(SubContinues)
  /\ WF_vars(SrvContinues /\ pc["srv"] # "waiting")
  /\ WF_vars(CanStep)
  /\ SF_vars(RecvDrained)
  /\ WF_vars(JoinAndDeinit)

FairSpec == Spec /\ Fairness

-----------------------------------------------------------------------------
(* Properties.                                                             *)

AxisValues == AxisRequests \cup {IDLE, NoValue}
AnyMessage == ControlMessages \cup {DefaultMessage, NoMessage}
Modes      == {ModeOf(m) : m \in AnyMessage}

DriveStates == [requested : AxisValues, fault : BOOLEAN, mode : Modes,
                setpoint : AnyMessage, setpoint_mode : Modes]

SubPoints  == {"idle", "store_msg", "store_idle", "set_idle"}
SrvPoints  == {"idle", "store_idle", "set_idle", "store_enabled", "store_request",
               "set_request", "begin_wait", "waiting"}
CanPoints  == {"off", "wait", "batch", "recv", "state", "state_send",
               "clear", "ctrl", "ctrl_stop", "ctrl_copy", "ctrl_send", "exited"}
MainPoints == {"init", "failed", "spin", "joining", "down"}

\* Every variable has its type.
TypeOK ==
  /\ param \in LaunchParams
  /\ enabled \in BOOLEAN /\ drivestop_active \in BOOLEAN /\ fresh \in BOOLEAN
  /\ axis_state \in AxisValues /\ srv_req \in AxisValues /\ can_state \in AxisValues
  /\ ctrl_msg \in AnyMessage /\ sub_msg \in AnyMessage /\ can_msg \in AnyMessage
  /\ evt \in [Events -> BOOLEAN] /\ ready \subseteq Events
  /\ mode_sent \in Modes
  /\ pc \in [Threads -> SubPoints \cup SrvPoints \cup CanPoints \cup MainPoints]
  /\ pc["sub"] \in SubPoints /\ pc["srv"] \in SrvPoints
  /\ pc["can"] \in CanPoints /\ pc["main"] \in MainPoints
  /\ drive \in DriveStates

\* An axis state that may move the motor.
Motion(s) == s \notin {NoValue, IDLE}

\* The CAN thread has no axis state request to serve.
StateHandoffDone == ~evt["srv"] /\ pc["can"] \notin {"state", "state_send"}

\* Neither group is between storing axis_state_ and setting srv_evt_.
NoHalfRequest == pc["sub"] # "set_idle" /\ pc["srv"] \notin {"set_idle", "set_request"}

\* Once set_enabled(false) has queued its IDLE and the CAN thread has caught
\* up, the last axis state the drive was given moves nothing, whatever
\* requests were in flight or come later, until set_enabled(true).
DisableSticks ==
  ~TxMayFail /\ ~enabled /\ pc["srv"] \notin {"store_idle", "set_idle"}
    /\ StateHandoffDone
  => ~Motion(drive.requested)

\* A stop in effect: the IDLE is stored, no other request is left over, no
\* setpoint is past its check.
Stopped ==
  /\ drivestop_active /\ pc["sub"] # "store_idle"
  /\ pc["srv"] = "store_request" => srv_req = IDLE
  /\ ~Motion(axis_state) /\ ~Motion(can_state) /\ ~Motion(drive.requested)
  /\ pc["can"] \notin {"ctrl_copy", "ctrl_send"}

\* A stop in effect stays in effect until /drivestop=false: no message or
\* service call in any order starts a motion or passes a setpoint, enabled
\* or not, whether or not frames are lost.
StopHolds ==
  [][Stopped /\ drivestop_active' => Stopped' /\ drive'.setpoint = drive.setpoint]_vars

\* A setpoint that passed commands_allowed before a latch closed is followed
\* by a pass over the axis-state slot: the wake-up of the request that the
\* closing latch queues is set or still to be set.  (What the slot holds by
\* then is another matter: StopReachesDrive.)
LateSetpointIsFollowed ==
  /\ pc["can"] \in {"ctrl_copy", "ctrl_send"} /\ drivestop_active
     => evt["srv"] \/ pc["sub"] \in {"store_idle", "set_idle"}
  /\ pc["can"] \in {"ctrl_stop", "ctrl_copy", "ctrl_send"} /\ ~enabled
     => evt["srv"] \/ pc["srv"] \in {"store_idle", "set_idle"}

\* The CAN thread is woken for, and reads, only mailboxes that were written:
\* never the uninitialized axis_state_, never the default ctrl_msg_.
MailboxesFilled ==
  /\ evt["srv"] \/ "srv" \in ready \/ pc["can"] \in {"state", "state_send"}
     => axis_state # NoValue
  /\ pc["can"] = "state_send" => can_state # NoValue
  /\ evt["sub"] \/ "sub" \in ready \/ pc["can"] \in {"ctrl", "ctrl_stop", "ctrl_copy"}
     => ctrl_msg \in ControlMessages
  /\ pc["can"] = "ctrl_send" => can_msg \in ControlMessages

\* No wake-up is lost: when nothing is in flight, the drive was given the
\* newest axis state stored, although requests overwrite each other.
NewestStateDelivered ==
  ~TxMayFail /\ axis_state # NoValue /\ NoHalfRequest /\ StateHandoffDone
    /\ pc["main"] # "down"
  => drive.requested = axis_state

\* Until shutdown the drive is given an axis state other than 0 only after
\* its latched faults were cleared.
FaultsClearedFirst ==
  ~TxMayFail /\ pc["main"] # "down" /\ drive.requested \notin {NoValue, UNDEFINED}
  => ~drive.fault

\* A setpoint the drive receives is one of the control and input mode it is
\* in, although the mode is sent only when it changes.
SetpointUnderItsMode ==
  ~TxMayFail => drive.setpoint_mode = ModeOf(drive.setpoint)

\* With axis_idle_on_shutdown the process leaves the axis in IDLE: nothing
\* the CAN thread still had to send comes after deinit's frame.
ShutdownLeavesIdle ==
  ~TxMayFail /\ pc["main"] = "down" /\ param.idle_on_shutdown
  => drive.requested = IDLE

\* run_until_empty has returned while the executor serves on.  What is
\* accepted from here on is stored and never sent, so that every promise of
\* an eventual effect below is one until then.
NobodySends == pc["can"] = "exited"

\* set_enabled(false) reaches the drive, unless the CAN thread has ended.
DisableTakesEffect ==
  pc["srv"] = "store_idle"
    ~> drive.requested = IDLE \/ enabled \/ NobodySends \/ ~Spinning

\* A request that would move the motor is past its checks and not stored.
PastCheck == pc["srv"] = "store_request" /\ Motion(srv_req)

\* /drivestop=true takes effect, unless a request that is already past its
\* check is still to be stored and overwrites the stop's IDLE, or the CAN
\* thread has ended.
StopTakesEffect ==
  pc["sub"] = "store_idle" /\ ~PastCheck
    ~> Stopped \/ ~drivestop_active \/ NobodySends \/ ~Spinning

\* A setpoint that was accepted is sent, or a newer one is accepted, or the
\* motor is blocked or the CAN thread ends meanwhile, even if a service call
\* waits without end.
SetpointForwarded ==
  \A m \in ControlMessages :
    pc["sub"] = "store_msg" /\ sub_msg = m /\ m.control_mode \in SupportedModes
      ~> \/ drive.setpoint = m
         \/ pc["sub"] = "store_msg" /\ sub_msg # m
         \/ ~enabled \/ drivestop_active \/ NobodySends \/ ~Spinning

\* The EpollEvents as Signal sees them: open from init to deinit; signalled;
\* the one whose callback runs; whether the loop will run on.
EpollEvents == {"sub", "srv", "clr"}
Opened      == pc["main"] \in {"spin", "joining"}
Signalled   == {e \in EpollEvents : Opened /\ evt[e]}
Handling ==
  CASE pc["can"] \in {"ctrl", "ctrl_stop", "ctrl_copy", "ctrl_send"} -> "sub"
    [] pc["can"] \in {"state", "state_send"} -> "srv"
    [] pc["can"] = "clear" -> "clr"
    [] OTHER -> NoValue

Signals == INSTANCE Signal WITH
  Events  <- EpollEvents,
  Nobody  <- NoValue,
  live    <- IF Opened THEN EpollEvents ELSE {},
  pending <- Signalled,
  serving <- Handling,
  running <- pc["can"] # "exited" /\ pc["main"] # "failed"

\* The loop as the node uses it keeps the promise that EventLoop keeps in
\* full: a callback group's signal has its callback called afterwards, one
\* at a time, and none once the loop returned.
SignalsServed == Signals!FairSpec

\* Shutdown ends: the CAN thread leaves epoll_wait, or has left it, and can
\* be joined.
ShutdownCompletes == pc["main"] = "joining" ~> pc["main"] = "down"

\* Both groups have done their part and the CAN thread has caught up.
CaughtUp ==
  ~TxMayFail /\ pc["sub"] = "idle" /\ pc["srv"] \in {"idle", "waiting"} /\ StateHandoffDone

\* custom_odrive/README.md:15 of /drivestop: "`true` -> IDLE + block motion /
\* enable / non-IDLE state requests".  When both groups have done their part
\* and the CAN thread has caught up, a stopped drive was last told IDLE.
StopReachesDrive == drivestop_active /\ CaughtUp => drive.requested = IDLE

\* The IDLE of a stop is stored, or about to be, and nothing overtakes it.
StopUnderWay ==
  drivestop_active /\ ~PastCheck /\ (pc["sub"] = "store_idle" \/ axis_state = IDLE)

\* A request that is past its checks when /drivestop=true comes is all that
\* can keep the stop from the drive: any other stop comes through, and so
\* does one whose IDLE is stored after that request.
StopComesThrough ==
  [][(StopUnderWay \/ (~drivestop_active /\ ~PastCheck)) /\ drivestop_active'
       => StopUnderWay' /\ (CaughtUp' => drive'.requested = IDLE)]_vars
=============================================================================
