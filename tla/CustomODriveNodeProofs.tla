------------------------ MODULE CustomODriveNodeProofs ------------------------
(***************************************************************************)
(* Theorems about CustomODriveNode, for every value of its constants.      *)
(***************************************************************************)
EXTENDS CustomODriveNode, TLAPS

LEMMA ModeOfType ==
  ASSUME NEW m \in AnyMessage
  PROVE  ModeOf(m) \in Modes
  BY DEF Modes

\* What a frame, sent or lost, does to a drive keeps its type.
LEMMA SendAxisStateType ==
  ASSUME NEW d \in DriveStates, NEW s \in AxisValues, NEW e \in SendAxisState(d, s)
  PROVE  e \in DriveStates
  BY DEF SendAxisState, Sent, SetAxisState, DriveStates

LEMMA SendClearErrorsType ==
  ASSUME NEW d \in DriveStates, NEW e \in SendClearErrors(d)
  PROVE  e \in DriveStates
  BY DEF SendClearErrors, Sent, ClearErrors, DriveStates

LEMMA SendStateRequestType ==
  ASSUME NEW d \in DriveStates, NEW s \in AxisValues, NEW e \in SendStateRequest(d, s)
  PROVE  e \in DriveStates
  BY SendAxisStateType, SendClearErrorsType DEF SendStateRequest

LEMMA SendSetpointType ==
  ASSUME NEW d \in DriveStates, NEW m \in AnyMessage, NEW e \in SendSetpoint(d, m)
  PROVE  e \in DriveStates
<1> DEFINE afterMode == IF mode_sent # ModeOf(m)
                        THEN Sent(d, SetControllerMode(d, m)) ELSE {d}
<1>1. ASSUME NEW c \in afterMode PROVE c \in DriveStates
  BY <1>1, ModeOfType DEF Sent, SetControllerMode, DriveStates
<1>2. ASSUME NEW c \in DriveStates, e \in Sent(c, SetInput(c, m)) PROVE e \in DriveStates
  BY <1>2 DEF Sent, SetInput, DriveStates
<1>3. e \in afterMode \/ \E c \in afterMode : e \in Sent(c, SetInput(c, m))
  BY DEF SendSetpoint
<1> QED BY <1>1, <1>2, <1>3

\* What a frame changes of the drive, and what it leaves alone.
LEMMA AxisStateSent ==
  ASSUME NEW d \in DriveStates, NEW s \in AxisValues, NEW e \in SendAxisState(d, s)
  PROVE  /\ e.requested \in {s, d.requested}
         /\ ~TxMayFail => e.requested = s
         /\ e.fault = d.fault /\ e.mode = d.mode
         /\ e.setpoint = d.setpoint /\ e.setpoint_mode = d.setpoint_mode
  BY InputsAssumption DEF SendAxisState, Sent, SetAxisState, DriveStates

LEMMA ClearErrorsSent ==
  ASSUME NEW d \in DriveStates, NEW e \in SendClearErrors(d)
  PROVE  /\ ~TxMayFail => ~e.fault
         /\ e.requested = d.requested /\ e.mode = d.mode
         /\ e.setpoint = d.setpoint /\ e.setpoint_mode = d.setpoint_mode
  BY InputsAssumption DEF SendClearErrors, Sent, ClearErrors, DriveStates

LEMMA StateRequestSent ==
  ASSUME NEW d \in DriveStates, NEW s \in AxisValues, NEW e \in SendStateRequest(d, s)
  PROVE  /\ e.requested \in {s, d.requested}
         /\ ~TxMayFail => e.requested = s /\ (s # UNDEFINED => ~e.fault)
         /\ e.mode = d.mode
         /\ e.setpoint = d.setpoint /\ e.setpoint_mode = d.setpoint_mode
<1>1. PICK c \in IF s = UNDEFINED THEN {d} ELSE SendClearErrors(d) : e \in SendAxisState(c, s)
  BY DEF SendStateRequest
<1>2. CASE s = UNDEFINED
  BY <1>1, <1>2, AxisStateSent
<1>3. CASE s # UNDEFINED
  <2>1. c \in SendClearErrors(d)
    BY <1>1, <1>3
  <2>2. c \in DriveStates
    BY <2>1, SendClearErrorsType
  <2> QED BY <1>1, <2>1, <2>2, AxisStateSent, ClearErrorsSent
<1> QED BY <1>2, <1>3

LEMMA SetpointSent ==
  ASSUME NEW d \in DriveStates, NEW m \in AnyMessage, NEW e \in SendSetpoint(d, m)
  PROVE  /\ e.requested = d.requested /\ e.fault = d.fault
         /\ ~TxMayFail /\ mode_sent = d.mode => e.mode = ModeOf(m)
         /\ ~TxMayFail /\ mode_sent = d.mode /\ d.setpoint_mode = ModeOf(d.setpoint)
              => e.setpoint_mode = ModeOf(e.setpoint)
<1> DEFINE afterMode == IF mode_sent # ModeOf(m)
                        THEN Sent(d, SetControllerMode(d, m)) ELSE {d}
<1> USE InputsAssumption
<1>1. ASSUME NEW c \in afterMode
      PROVE  /\ c \in DriveStates
             /\ c.requested = d.requested /\ c.fault = d.fault
             /\ c.setpoint = d.setpoint /\ c.setpoint_mode = d.setpoint_mode
             /\ ~TxMayFail /\ mode_sent = d.mode => c.mode = ModeOf(m)
  BY <1>1, ModeOfType DEF Sent, SetControllerMode, DriveStates
<1>2. ASSUME NEW c \in DriveStates, e \in Sent(c, SetInput(c, m))
      PROVE  /\ e.requested = c.requested /\ e.fault = c.fault /\ e.mode = c.mode
             /\ \/ e.setpoint = m /\ e.setpoint_mode = c.mode
                \/ TxMayFail
  BY <1>2 DEF Sent, SetInput, DriveStates
<1>3. e \in afterMode \/ \E c \in afterMode : e \in Sent(c, SetInput(c, m))
  BY DEF SendSetpoint
<1> HIDE DEF afterMode
<1>4. CASE e \in afterMode
  BY <1>1, <1>4
<1>5. ASSUME NEW c \in afterMode, e \in Sent(c, SetInput(c, m))
      PROVE  /\ e.requested = d.requested /\ e.fault = d.fault
             /\ ~TxMayFail /\ mode_sent = d.mode => e.mode = ModeOf(m)
             /\ ~TxMayFail /\ mode_sent = d.mode /\ d.setpoint_mode = ModeOf(d.setpoint)
                  => e.setpoint_mode = ModeOf(e.setpoint)
  BY <1>1, <1>2, <1>5
<1> QED BY <1>3, <1>4, <1>5

-----------------------------------------------------------------------------
LEMMA TypeStep ==
  TypeOK /\ [Next]_vars => TypeOK'
<1> SUFFICES ASSUME TypeOK, Next PROVE TypeOK'
  BY DEF TypeOK, vars, latches, mail, status, canVars
<1> USE InputsAssumption
<1> USE DEF TypeOK, Goto, latches, mail, status, canVars, Threads, Events,
            SubPoints, SrvPoints, CanPoints, MainPoints, AxisValues, AnyMessage
<1>1. CASE CallbackBegins
  <2>1. ASSUME NEW m \in ControlMessages, SubscriberCallback(m) PROVE TypeOK'
    BY <2>1 DEF SubscriberCallback
  <2>2. ASSUME NEW b \in DrivestopMsgs, DrivestopCallback(b) PROVE TypeOK'
    BY <2>2 DEF DrivestopCallback
  <2>3. ASSUME NEW s \in AxisRequests, ServiceAccept(s) PROVE TypeOK'
    BY <2>3 DEF ServiceAccept
  <2>4. CASE ServiceClearErrors
    BY <2>4 DEF ServiceClearErrors
  <2>5. CASE SetEnabledCheck
    BY <2>5 DEF SetEnabledCheck
  <2>6. CASE SetDisabled
    <3>1. enabled' \in BOOLEAN
      BY <2>6 DEF SetDisabled
    <3>2. pc' \in [Threads -> SubPoints \cup SrvPoints \cup CanPoints \cup MainPoints]
          /\ pc'["srv"] \in SrvPoints /\ \A t \in Threads \ {"srv"} : pc'[t] = pc[t]
      BY <2>6 DEF SetDisabled
    <3>3. UNCHANGED <<param, drivestop_active, mail, evt, status, sub_msg, srv_req,
       canVars, drive>>
      BY <2>6 DEF SetDisabled
    <3> QED BY <3>1, <3>2, <3>3
  <2> QED BY <1>1, <2>1, <2>2, <2>3, <2>4, <2>5, <2>6 DEF CallbackBegins
<1>2. CASE SubContinues
  <2>1. CASE SubscriberStore
    BY <2>1 DEF SubscriberStore
  <2>2. CASE RequestIdleStore("sub")
    BY <2>2 DEF RequestIdleStore
  <2>3. CASE RequestIdleSet("sub")
    BY <2>3 DEF RequestIdleSet
  <2> QED BY <1>2, <2>1, <2>2, <2>3 DEF SubContinues
<1>3. CASE SrvContinues
  <2>1. CASE RequestIdleStore("srv")
    BY <2>1 DEF RequestIdleStore
  <2>2. CASE RequestIdleSet("srv")
    BY <2>2 DEF RequestIdleSet
  <2>3. CASE ServiceStore
    BY <2>3 DEF ServiceStore
  <2>4. CASE ServiceSet
    BY <2>4 DEF ServiceSet
  <2>5. CASE ServiceBeginWait
    <3>1. fresh' \in BOOLEAN
      BY <2>5 DEF ServiceBeginWait
    <3>2. pc' \in [Threads -> SubPoints \cup SrvPoints \cup CanPoints \cup MainPoints]
          /\ pc'["srv"] \in SrvPoints /\ \A t \in Threads \ {"srv"} : pc'[t] = pc[t]
      BY <2>5 DEF ServiceBeginWait
    <3>3. UNCHANGED <<param, latches, mail, evt, ctrl_stat, sub_msg, srv_req, canVars,
       drive>>
      BY <2>5 DEF ServiceBeginWait
    <3> QED BY <3>1, <3>2, <3>3
  <2>6. CASE ServiceReturn
    <3>1. fresh' \in BOOLEAN /\ srv_req' \in AxisValues
      BY <2>6 DEF ServiceReturn
    <3>2. pc' \in [Threads -> SubPoints \cup SrvPoints \cup CanPoints \cup MainPoints]
          /\ pc'["srv"] \in SrvPoints /\ \A t \in Threads \ {"srv"} : pc'[t] = pc[t]
      BY <2>6 DEF ServiceReturn
    <3>3. UNCHANGED <<param, latches, mail, evt, ctrl_stat, sub_msg, canVars, drive>>
      BY <2>6 DEF ServiceReturn
    <3> QED BY <3>1, <3>2, <3>3
  <2>7. CASE SetEnabledStore
    BY <2>7 DEF SetEnabledStore
  <2> QED BY <1>3, <2>1, <2>2, <2>3, <2>4, <2>5, <2>6, <2>7 DEF SrvContinues
<1>4. CASE CanStep
  <2>1. CASE LoopCheck
    BY <2>1 DEF LoopCheck
  <2>2. CASE EpollWait
    BY <2>2 DEF EpollWait
  <2>3. CASE OnTrigger("sub", "ctrl")
    BY <2>3 DEF OnTrigger
  <2>4. CASE OnTrigger("srv", "state")
    BY <2>4 DEF OnTrigger
  <2>5. CASE OnTrigger("clr", "clear")
    BY <2>5 DEF OnTrigger
  <2>6. CASE OnTrigger("stop", "batch")
    BY <2>6 DEF OnTrigger
  <2>7. CASE OnSocket
    BY <2>7 DEF OnSocket
  <2>8. ASSUME NEW h \in Heartbeats, RecvHeartbeat(h) PROVE TypeOK'
    BY <2>8 DEF RecvHeartbeat
  <2>9. CASE RecvIgnored
    BY <2>9 DEF RecvIgnored
  <2>10. CASE RecvDrained
    BY <2>10 DEF RecvDrained
  <2>11. CASE RequestStateRead
    BY <2>11 DEF RequestStateRead
  <2>12. CASE RequestStateSend
    BY <2>12, SendStateRequestType DEF RequestStateSend
  <2>13. CASE RequestClearErrors
    BY <2>13, SendClearErrorsType DEF RequestClearErrors
  <2>14. CASE CtrlLoadEnabled
    BY <2>14 DEF CtrlLoadEnabled
  <2>15. CASE CtrlLoadDrivestop
    BY <2>15 DEF CtrlLoadDrivestop
  <2>16. CASE CtrlCopy
    BY <2>16 DEF CtrlCopy
  <2>17. CASE CtrlSend
    BY <2>17, SendSetpointType, ModeOfType DEF CtrlSend
  <2> QED BY <1>4, <2>1, <2>2, <2>3, <2>4, <2>5, <2>6, <2>7, <2>8, <2>9, <2>10, <2>11,
     <2>12, <2>13, <2>14, <2>15, <2>16, <2>17 DEF CanStep, CanServes
<1>5. CASE MainStep
  <2>1. CASE NodeInit
    BY <2>1, SendStateRequestType DEF NodeInit, LaunchParams
  <2>2. CASE NodeInitFails
    BY <2>2 DEF NodeInitFails
  <2>3. CASE SpinReturns
    BY <2>3 DEF SpinReturns
  <2>4. CASE JoinAndDeinit
    BY <2>4, SendAxisStateType DEF JoinAndDeinit
  <2>5. CASE Ended
    BY <2>5 DEF Ended, vars
  <2> QED BY <1>5, <2>1, <2>2, <2>3, <2>4, <2>5 DEF MainStep
<1>6. CASE FrameArrives
  BY <1>6 DEF FrameArrives
<1>9. CASE EpollInterrupted
  BY <1>9 DEF EpollInterrupted
<1> QED BY <1>1, <1>2, <1>3, <1>4, <1>5, <1>6, <1>9 DEF Next

LEMMA InitType == Init => TypeOK
<1> SUFFICES ASSUME Init PROVE TypeOK
  OBVIOUS
<1> USE DEF Init
<1>1. NoMode \in Modes
  BY DEF NoMode, Modes, ModeOf, AnyMessage, NoMessage
<1>2. drive \in DriveStates
  BY <1>1 DEF DriveStates, AxisValues, AnyMessage
<1>3. pc \in [Threads -> SubPoints \cup SrvPoints \cup CanPoints \cup MainPoints]
  BY DEF Threads, SubPoints, SrvPoints, CanPoints, MainPoints
<1>4. /\ pc["sub"] \in SubPoints /\ pc["srv"] \in SrvPoints
      /\ pc["can"] \in CanPoints /\ pc["main"] \in MainPoints
  BY DEF Threads, SubPoints, SrvPoints, CanPoints, MainPoints
<1>5. param \in LaunchParams
  BY InputsAssumption
<1> QED BY <1>1, <1>2, <1>3, <1>4, <1>5 DEF TypeOK, AxisValues, AnyMessage, Events

\* Every variable of the node has its type.
THEOREM TypeCorrect == Spec => []TypeOK
<1>1. Init => TypeOK
  BY InitType
<1> QED BY <1>1, TypeStep, PTL DEF Spec

-----------------------------------------------------------------------------
(* The inductive invariant, part by part.                                  *)

\* Nothing is requested before spin; no callback runs after it; the CAN
\* thread is out before deinit.
Phases ==
  /\ pc["main"] \in {"init", "failed"} =>
       /\ pc["sub"] = "idle" /\ pc["srv"] = "idle" /\ pc["can"] = "off"
       /\ axis_state = NoValue /\ drive.requested = NoValue
       /\ ~evt["sub"] /\ ~evt["srv"]
  /\ pc["main"] \in {"joining", "down"} => pc["sub"] = "idle" /\ pc["srv"] = "idle"
  /\ pc["main"] = "down" => pc["can"] = "exited"

\* MailboxesFilled, with the stores and wake-ups in flight.
Filled ==
  /\ MailboxesFilled
  /\ pc["sub"] = "set_idle" \/ pc["srv"] \in {"set_idle", "set_request"}
     => axis_state # NoValue
  /\ pc["srv"] = "store_request" => srv_req # NoValue
  /\ pc["sub"] = "store_msg" => sub_msg \in ControlMessages

\* NewestStateDelivered, with the copy the CAN thread is about to send.
Handoff ==
  /\ NewestStateDelivered
  /\ pc["can"] = "state_send" /\ NoHalfRequest /\ ~evt["srv"] => can_state = axis_state

\* DisableSticks, with the requests that a disabled motor can have in flight:
\* none of them is a motion.
Disabled ==
  /\ DisableSticks
  /\ pc["srv"] = "store_request" /\ Motion(srv_req) => enabled
  /\ ~enabled /\ pc["srv"] # "store_idle" => ~Motion(axis_state)
  /\ ~enabled /\ pc["srv"] \notin {"store_idle", "set_idle"} /\ ~evt["srv"]
       /\ pc["can"] = "state_send"
     => ~Motion(can_state)

\* SetpointUnderItsMode, because the cached mode is the drive's.
ModeCached ==
  /\ SetpointUnderItsMode
  /\ ~TxMayFail => mode_sent = drive.mode

\* What holds also of a node whose drive faults and reboots on its own.
Core ==
  /\ TypeOK
  /\ Phases
  /\ Filled
  /\ LateSetpointIsFollowed
  /\ Handoff
  /\ Disabled
  /\ ShutdownLeavesIdle

\* What relies on a drive that changes nothing by itself.
Passive == FaultsClearedFirst /\ ModeCached

IInv == Core /\ Passive

\* Each action keeps every part.
LEMMA EachStep ==
  Core /\ [Next]_vars => Core' /\ (Passive => Passive')
<1> DEFINE Parts == /\ Phases /\ Filled /\ LateSetpointIsFollowed /\ Handoff
                    /\ Disabled /\ ShutdownLeavesIdle
           Kept == Parts' /\ (Passive => Passive')
<1> USE DEF Passive, Phases, Filled, LateSetpointIsFollowed, Handoff, Disabled,
            FaultsClearedFirst, ModeCached, ShutdownLeavesIdle, MailboxesFilled,
            NewestStateDelivered, DisableSticks, SetpointUnderItsMode,
            NoHalfRequest, StateHandoffDone
<1> SUFFICES ASSUME Core, Next PROVE Kept
  BY TypeStep DEF Core, vars, latches, mail, status, canVars
<1> USE InputsAssumption
<1> USE DEF Core, TypeOK, Motion, Spinning, Goto, latches, mail, status, canVars,
            Threads, Events
<1>1. CASE CallbackBegins
  <2>1. ASSUME NEW m \in ControlMessages, SubscriberCallback(m) PROVE Kept
    BY <2>1 DEF SubscriberCallback
  <2>2. ASSUME NEW b \in DrivestopMsgs, DrivestopCallback(b) PROVE Kept
    BY <2>2 DEF DrivestopCallback
  <2>3. ASSUME NEW s \in AxisRequests, ServiceAccept(s) PROVE Kept
    BY <2>3 DEF ServiceAccept
  <2>4. CASE ServiceClearErrors
    BY <2>4 DEF ServiceClearErrors
  <2>5. CASE SetEnabledCheck
    BY <2>5 DEF SetEnabledCheck
  <2>6. CASE SetDisabled
    BY <2>6 DEF SetDisabled
  <2> QED BY <1>1, <2>1, <2>2, <2>3, <2>4, <2>5, <2>6 DEF CallbackBegins
<1>2. CASE SubContinues
  <2>1. CASE SubscriberStore
    BY <2>1 DEF SubscriberStore
  <2>2. CASE RequestIdleStore("sub")
    BY <2>2 DEF RequestIdleStore, IDLE, NoValue
  <2>3. CASE RequestIdleSet("sub")
    BY <2>3 DEF RequestIdleSet
  <2> QED BY <1>2, <2>1, <2>2, <2>3 DEF SubContinues
<1>3. CASE SrvContinues
  <2>1. CASE RequestIdleStore("srv")
    BY <2>1 DEF RequestIdleStore, IDLE, NoValue
  <2>2. CASE RequestIdleSet("srv")
    BY <2>2 DEF RequestIdleSet
  <2>3. CASE ServiceStore
    BY <2>3 DEF ServiceStore
  <2>4. CASE ServiceSet
    BY <2>4 DEF ServiceSet
  <2>5. CASE ServiceBeginWait
    BY <2>5 DEF ServiceBeginWait
  <2>6. CASE ServiceReturn
    BY <2>6 DEF ServiceReturn
  <2>7. CASE SetEnabledStore
    BY <2>7 DEF SetEnabledStore
  <2> QED BY <1>3, <2>1, <2>2, <2>3, <2>4, <2>5, <2>6, <2>7 DEF SrvContinues
<1>4. CASE CanStep
  <2>1. CASE LoopCheck
    BY <2>1 DEF LoopCheck
  <2>2. CASE EpollWait
    BY <2>2 DEF EpollWait
  <2>3. CASE OnTrigger("sub", "ctrl")
    BY <2>3 DEF OnTrigger
  <2>4. CASE OnTrigger("srv", "state")
    BY <2>4 DEF OnTrigger
  <2>5. CASE OnTrigger("clr", "clear")
    BY <2>5 DEF OnTrigger
  <2>6. CASE OnTrigger("stop", "batch")
    BY <2>6 DEF OnTrigger
  <2>7. CASE OnSocket
    BY <2>7 DEF OnSocket
  <2>8. ASSUME NEW h \in Heartbeats, RecvHeartbeat(h) PROVE Kept
    BY <2>8 DEF RecvHeartbeat
  <2>9. CASE RecvIgnored
    BY <2>9 DEF RecvIgnored
  <2>10. CASE RecvDrained
    BY <2>10 DEF RecvDrained
  <2>11. CASE RequestStateRead
    BY <2>11 DEF RequestStateRead
  <2>12. CASE RequestStateSend
    BY <2>12, StateRequestSent DEF RequestStateSend
  <2>13. CASE RequestClearErrors
    BY <2>13, ClearErrorsSent DEF RequestClearErrors
  <2>14. CASE CtrlLoadEnabled
    BY <2>14 DEF CtrlLoadEnabled
  <2>15. CASE CtrlLoadDrivestop
    BY <2>15 DEF CtrlLoadDrivestop
  <2>16. CASE CtrlCopy
    BY <2>16 DEF CtrlCopy
  <2>17. CASE CtrlSend
    BY <2>17, SetpointSent DEF CtrlSend
  <2> QED BY <1>4, <2>1, <2>2, <2>3, <2>4, <2>5, <2>6, <2>7, <2>8, <2>9, <2>10, <2>11,
     <2>12, <2>13, <2>14, <2>15, <2>16, <2>17 DEF CanStep, CanServes
<1>5. CASE MainStep
  <2>1. CASE NodeInit
    BY <2>1, StateRequestSent DEF NodeInit, AxisValues, UNDEFINED, IDLE, NoValue
  <2>2. CASE NodeInitFails
    BY <2>2 DEF NodeInitFails
  <2>3. CASE SpinReturns
    BY <2>3 DEF SpinReturns
  <2>4. CASE JoinAndDeinit
    BY <2>4, AxisStateSent DEF JoinAndDeinit, AxisValues, LaunchParams
  <2>5. CASE Ended
    BY <2>5 DEF Ended, vars
  <2> QED BY <1>5, <2>1, <2>2, <2>3, <2>4, <2>5 DEF MainStep
<1>6. CASE FrameArrives
  BY <1>6 DEF FrameArrives
<1>9. CASE EpollInterrupted
  BY <1>9 DEF EpollInterrupted
<1> QED BY <1>1, <1>2, <1>3, <1>4, <1>5, <1>6, <1>9 DEF Next

LEMMA IInvStep == IInv /\ [Next]_vars => IInv'
  BY EachStep DEF IInv

LEMMA InitIInv == Init => IInv
<1> SUFFICES ASSUME Init PROVE IInv
  OBVIOUS
<1>1. TypeOK
  BY InitType
<1>2. Phases /\ Filled /\ LateSetpointIsFollowed /\ Handoff /\ Disabled /\ FaultsClearedFirst
  BY DEF Init, Phases, Filled, LateSetpointIsFollowed, Handoff, Disabled,
     FaultsClearedFirst,
     MailboxesFilled, NewestStateDelivered, DisableSticks, NoHalfRequest, StateHandoffDone,
     Motion, Threads, Events
<1>3. ModeCached /\ ShutdownLeavesIdle
  BY DEF Init, ModeCached, SetpointUnderItsMode, ShutdownLeavesIdle, ModeOf, NoMode,
     NoMessage, Threads
<1> QED BY <1>1, <1>2, <1>3 DEF IInv, Core, Passive

\* The strengthened invariant holds in every state of the node.
THEOREM Invariance == Spec => []IInv
  BY InitIInv, IInvStep, PTL DEF Spec

-----------------------------------------------------------------------------
\* set_enabled(false) sticks: after its IDLE was handed over the drive is not
\* told to move until set_enabled(true).
THEOREM DisableSticksTheorem == Spec => []DisableSticks
<1>1. IInv => DisableSticks
  BY DEF IInv, Core, Disabled
<1> QED BY <1>1, Invariance, PTL

\* A setpoint sent although a latch has closed is never the last frame: the
\* IDLE of the closing latch is still to come.
THEOREM LateSetpointTheorem == Spec => []LateSetpointIsFollowed
<1>1. IInv => LateSetpointIsFollowed
  BY DEF IInv, Core, Passive
<1> QED BY <1>1, Invariance, PTL

\* The CAN thread never reads a mailbox that was not written.
THEOREM MailboxesTheorem == Spec => []MailboxesFilled
<1>1. IInv => MailboxesFilled
  BY DEF IInv, Core, Filled
<1> QED BY <1>1, Invariance, PTL

\* No wake-up is lost between the executor threads and the CAN thread.
THEOREM HandoffTheorem == Spec => []NewestStateDelivered
<1>1. IInv => NewestStateDelivered
  BY DEF IInv, Core, Handoff
<1> QED BY <1>1, Invariance, PTL

\* A drive is asked for a state only after its errors were cleared.
THEOREM FaultsTheorem == Spec => []FaultsClearedFirst
<1>1. IInv => FaultsClearedFirst
  BY DEF IInv, Core, Passive
<1> QED BY <1>1, Invariance, PTL

\* Sending the mode only when it changes never lets a setpoint meet another
\* mode, if no frame is lost.
THEOREM ModeTheorem == Spec => []SetpointUnderItsMode
<1>1. IInv => SetpointUnderItsMode
  BY DEF IInv, Passive, ModeCached
<1> QED BY <1>1, Invariance, PTL

\* The IDLE of deinit is the last word on the bus.
THEOREM ShutdownTheorem == Spec => []ShutdownLeavesIdle
<1>1. IInv => ShutdownLeavesIdle
  BY DEF IInv, Core, Passive
<1> QED BY <1>1, Invariance, PTL

LEMMA StopHoldsStep ==
  ASSUME TypeOK, [Next]_vars, Stopped, drivestop_active'
  PROVE  Stopped' /\ drive'.setpoint = drive.setpoint
<1> USE InputsAssumption
<1> DEFINE Kept == Stopped' /\ drive'.setpoint = drive.setpoint
<1> USE DEF Stopped, Motion, Spinning, TypeOK, Goto, latches, mail, status, canVars,
            Threads, Events
<1>1. CASE CallbackBegins
  <2>1. ASSUME NEW m \in ControlMessages, SubscriberCallback(m) PROVE Kept
    BY <2>1 DEF SubscriberCallback
  <2>2. ASSUME NEW b \in DrivestopMsgs, DrivestopCallback(b) PROVE Kept
    BY <2>2 DEF DrivestopCallback
  <2>3. ASSUME NEW s \in AxisRequests, ServiceAccept(s) PROVE Kept
    BY <2>3 DEF ServiceAccept
  <2>4. CASE ServiceClearErrors
    BY <2>4 DEF ServiceClearErrors
  <2>5. CASE SetEnabledCheck
    BY <2>5 DEF SetEnabledCheck
  <2>6. CASE SetDisabled
    BY <2>6 DEF SetDisabled
  <2> QED BY <1>1, <2>1, <2>2, <2>3, <2>4, <2>5, <2>6 DEF CallbackBegins
<1>2. CASE SubContinues
  <2>1. CASE SubscriberStore
    BY <2>1 DEF SubscriberStore
  <2>2. CASE RequestIdleStore("sub")
    BY <2>2 DEF RequestIdleStore, IDLE, NoValue
  <2>3. CASE RequestIdleSet("sub")
    BY <2>3 DEF RequestIdleSet
  <2> QED BY <1>2, <2>1, <2>2, <2>3 DEF SubContinues
<1>3. CASE SrvContinues
  <2>1. CASE RequestIdleStore("srv")
    BY <2>1 DEF RequestIdleStore, IDLE, NoValue
  <2>2. CASE RequestIdleSet("srv")
    BY <2>2 DEF RequestIdleSet
  <2>3. CASE ServiceStore
    BY <2>3 DEF ServiceStore
  <2>4. CASE ServiceSet
    BY <2>4 DEF ServiceSet
  <2>5. CASE ServiceBeginWait
    BY <2>5 DEF ServiceBeginWait
  <2>6. CASE ServiceReturn
    BY <2>6 DEF ServiceReturn
  <2>7. CASE SetEnabledStore
    BY <2>7 DEF SetEnabledStore
  <2> QED BY <1>3, <2>1, <2>2, <2>3, <2>4, <2>5, <2>6, <2>7 DEF SrvContinues
<1>4. CASE CanStep
  <2>1. CASE LoopCheck
    BY <2>1 DEF LoopCheck
  <2>2. CASE EpollWait
    BY <2>2 DEF EpollWait
  <2>3. CASE OnTrigger("sub", "ctrl")
    BY <2>3 DEF OnTrigger
  <2>4. CASE OnTrigger("srv", "state")
    BY <2>4 DEF OnTrigger
  <2>5. CASE OnTrigger("clr", "clear")
    BY <2>5 DEF OnTrigger
  <2>6. CASE OnTrigger("stop", "batch")
    BY <2>6 DEF OnTrigger
  <2>7. CASE OnSocket
    BY <2>7 DEF OnSocket
  <2>8. ASSUME NEW h \in Heartbeats, RecvHeartbeat(h) PROVE Kept
    BY <2>8 DEF RecvHeartbeat
  <2>9. CASE RecvIgnored
    BY <2>9 DEF RecvIgnored
  <2>10. CASE RecvDrained
    BY <2>10 DEF RecvDrained
  <2>11. CASE RequestStateRead
    BY <2>11 DEF RequestStateRead
  <2>12. CASE RequestStateSend
    BY <2>12, StateRequestSent DEF RequestStateSend
  <2>13. CASE RequestClearErrors
    BY <2>13, ClearErrorsSent DEF RequestClearErrors
  <2>14. CASE CtrlLoadEnabled
    BY <2>14 DEF CtrlLoadEnabled
  <2>15. CASE CtrlLoadDrivestop
    BY <2>15 DEF CtrlLoadDrivestop
  <2>16. CASE CtrlCopy
    BY <2>16 DEF CtrlCopy
  <2>17. CASE CtrlSend
    BY <2>17 DEF CtrlSend
  <2> QED BY <1>4, <2>1, <2>2, <2>3, <2>4, <2>5, <2>6, <2>7, <2>8, <2>9, <2>10, <2>11,
     <2>12, <2>13, <2>14, <2>15, <2>16, <2>17 DEF CanStep, CanServes
<1>5. CASE MainStep
  <2>1. CASE NodeInit
    BY <2>1, StateRequestSent DEF NodeInit, AxisValues, IDLE, NoValue
  <2>2. CASE NodeInitFails
    BY <2>2 DEF NodeInitFails
  <2>3. CASE SpinReturns
    BY <2>3 DEF SpinReturns
  <2>4. CASE JoinAndDeinit
    BY <2>4, AxisStateSent DEF JoinAndDeinit, AxisValues, IDLE, NoValue
  <2>5. CASE Ended
    BY <2>5 DEF Ended, vars
  <2> QED BY <1>5, <2>1, <2>2, <2>3, <2>4, <2>5 DEF MainStep
<1>6. CASE FrameArrives
  BY <1>6 DEF FrameArrives
<1>7. CASE UNCHANGED vars
  BY <1>7 DEF vars
<1>9. CASE EpollInterrupted
  BY <1>9 DEF EpollInterrupted
<1> QED BY <1>1, <1>2, <1>3, <1>4, <1>5, <1>6, <1>7, <1>9 DEF Next

\* A stop in effect stays in effect until /drivestop=false, whatever is
\* received, asked for or lost meanwhile.
THEOREM StopHoldsTheorem == Spec => StopHolds
<1>1. TypeOK /\ [Next]_vars
      => [Stopped /\ drivestop_active' => Stopped' /\ drive'.setpoint = drive.setpoint]_vars
  BY StopHoldsStep
<1> QED BY <1>1, TypeCorrect, PTL DEF Spec, StopHolds

-----------------------------------------------------------------------------
(* What finding 1 does not touch: a stop that no motion request overtakes  *)
(* between its check and its store.                                        *)

\* The IDLE of a stop is neither overwritten nor forgotten.
LEMMA UnderWayStep ==
  ASSUME Core, [Next]_vars, drivestop_active',
         StopUnderWay \/ (~drivestop_active /\ ~PastCheck)
  PROVE  StopUnderWay'
<1> USE InputsAssumption
<1> USE DEF StopUnderWay, PastCheck, Motion, Spinning, Core, TypeOK, Goto, latches, mail,
            status, canVars, Threads, IDLE, NoValue
<1>1. CASE CallbackBegins
  <2>1. ASSUME NEW m \in ControlMessages, SubscriberCallback(m) PROVE StopUnderWay'
    BY <2>1 DEF SubscriberCallback
  <2>2. ASSUME NEW b \in DrivestopMsgs, DrivestopCallback(b) PROVE StopUnderWay'
    BY <2>2 DEF DrivestopCallback
  <2>3. ASSUME NEW s \in AxisRequests, ServiceAccept(s) PROVE StopUnderWay'
    BY <2>3 DEF ServiceAccept
  <2>4. CASE ServiceClearErrors \/ SetEnabledCheck \/ SetDisabled
    BY <2>4 DEF ServiceClearErrors, SetEnabledCheck, SetDisabled
  <2> QED BY <1>1, <2>1, <2>2, <2>3, <2>4 DEF CallbackBegins
<1>2. CASE SubContinues
  BY <1>2 DEF SubContinues, SubscriberStore, RequestIdleStore, RequestIdleSet
<1>3. CASE SrvContinues
  <2>1. CASE ServiceStore
    BY <2>1 DEF ServiceStore, Filled
  <2> QED BY <1>3, <2>1 DEF SrvContinues, RequestIdleStore, RequestIdleSet, ServiceSet,
     ServiceBeginWait, ServiceReturn, SetEnabledStore
<1>4. CASE CanStep
  BY <1>4 DEF CanStep, CanServes, RecvHeartbeat, LoopCheck, EpollWait, OnTrigger, OnSocket,
     RecvIgnored, RecvDrained, RequestStateRead, RequestStateSend, RequestClearErrors,
     CtrlLoadEnabled, CtrlLoadDrivestop, CtrlCopy, CtrlSend
<1>5. CASE MainStep
  BY <1>5 DEF MainStep, NodeInit, NodeInitFails, SpinReturns, JoinAndDeinit, Ended, vars
<1>6. CASE FrameArrives
  BY <1>6 DEF FrameArrives
<1>7. CASE UNCHANGED vars
  BY <1>7 DEF vars
<1>9. CASE EpollInterrupted
  BY <1>9 DEF EpollInterrupted
<1> QED BY <1>1, <1>2, <1>3, <1>4, <1>5, <1>6, <1>7, <1>9 DEF Next

\* Nothing but deinit ends the process, and it sends IDLE or nothing.
LEMMA LastSteps ==
  ASSUME Core, Next, pc'["main"] = "down"
  PROVE  JoinAndDeinit \/ UNCHANGED vars
<1> USE DEF Core, TypeOK, Phases, Goto, Threads, Spinning
<1>1. CASE CallbackBegins
  BY <1>1 DEF CallbackBegins, SubscriberCallback, DrivestopCallback, ServiceAccept,
     ServiceClearErrors, SetEnabledCheck, SetDisabled
<1>2. CASE SubContinues
  BY <1>2 DEF SubContinues, SubscriberStore, RequestIdleStore, RequestIdleSet
<1>3. CASE SrvContinues
  BY <1>3 DEF SrvContinues, RequestIdleStore, RequestIdleSet, ServiceStore, ServiceSet,
     ServiceBeginWait, ServiceReturn, SetEnabledStore
<1>4. CASE CanStep
  BY <1>4 DEF CanStep, CanServes, RecvHeartbeat, LoopCheck, EpollWait, OnTrigger, OnSocket,
     RecvIgnored, RecvDrained, RequestStateRead, RequestStateSend, RequestClearErrors,
     CtrlLoadEnabled, CtrlLoadDrivestop, CtrlCopy, CtrlSend
<1>5. CASE MainStep
  BY <1>5 DEF MainStep, NodeInit, NodeInitFails, SpinReturns, Ended, vars, mail
<1>6. CASE FrameArrives
  BY <1>6 DEF FrameArrives
<1>9. CASE EpollInterrupted
  BY <1>9 DEF EpollInterrupted
<1> QED BY <1>1, <1>2, <1>3, <1>4, <1>5, <1>6, <1>9 DEF Next

\* When everything is handed over the drive was told the stop's IDLE.
Told == StopUnderWay /\ CaughtUp => drive.requested = IDLE

LEMMA ToldStep ==
  ASSUME Core, Told, [Next]_vars
  PROVE  Told'
<1> SUFFICES ASSUME StopUnderWay', CaughtUp' PROVE drive'.requested = IDLE
  BY DEF Told
<1>1. Core'
  BY EachStep
<1>2. CASE pc'["main"] # "down"
  <2>1. axis_state' = IDLE /\ NoHalfRequest'
    BY DEF StopUnderWay, CaughtUp, NoHalfRequest
  <2>2. NewestStateDelivered'
    BY <1>1 DEF Core, Handoff
  <2> QED BY <1>2, <2>1, <2>2 DEF NewestStateDelivered, CaughtUp, IDLE, NoValue
<1>3. CASE pc'["main"] = "down" /\ JoinAndDeinit
  <2>1. StopUnderWay /\ CaughtUp
    BY <1>3 DEF JoinAndDeinit, Goto, Core, TypeOK, Threads, StopUnderWay, PastCheck, Motion,
       CaughtUp, StateHandoffDone, latches, mail
  <2>2. drive.requested = IDLE /\ drive \in DriveStates /\ IDLE \in AxisValues
    BY <2>1 DEF Told, Core, TypeOK, AxisValues
  <2> QED BY <1>3, <2>2, AxisStateSent DEF JoinAndDeinit
<1>4. CASE pc'["main"] = "down" /\ ~JoinAndDeinit
  <2>1. UNCHANGED vars
    BY <1>4, LastSteps
  <2> QED BY <2>1 DEF Told, StopUnderWay, PastCheck, Motion, CaughtUp, StateHandoffDone, vars,
     latches, mail, canVars
<1> QED BY <1>2, <1>3, <1>4

\* Only a motion request past its checks when the stop comes can keep the stop
\* from the drive: of all interleavings, for all messages, requests and
\* launch parameters, finding 1 is the one that fails.
THEOREM StopComesThroughTheorem == Spec => StopComesThrough
<1> DEFINE Stops == (StopUnderWay \/ (~drivestop_active /\ ~PastCheck)) /\ drivestop_active'
                      => StopUnderWay' /\ (CaughtUp' => drive'.requested = IDLE)
<1>1. Init => Told
  BY DEF Init, Told, StopUnderWay
<1>2. Core /\ Told /\ [Next]_vars => Told'
  BY ToldStep
<1>3. Core /\ Told /\ [Next]_vars => [Stops]_vars
  BY UnderWayStep, ToldStep DEF Told
<1>4. Spec => []Core
  BY Invariance, PTL DEF IInv
<1> QED BY <1>1, <1>2, <1>3, <1>4, PTL DEF Spec, StopComesThrough

-----------------------------------------------------------------------------
(* The node's loop implements Signal.                                      *)

\* A batch holds only what was signalled, and nothing is before init.
Batched ==
  /\ \A e \in ready : e \in EpollEvents => evt[e]
  /\ pc["main"] \in {"init", "failed"} => ~evt["clr"] /\ ready = {}

LEMMA BatchedStep ==
  ASSUME Core, Batched, [Next]_vars
  PROVE  Batched'
<1> USE DEF Core, TypeOK, Batched, Phases, EpollEvents, Goto, Spinning, Events, Threads,
            latches, mail, status, canVars
<1>1. CASE CallbackBegins
  BY <1>1 DEF CallbackBegins, SubscriberCallback, DrivestopCallback, ServiceAccept,
              ServiceClearErrors, SetEnabledCheck, SetDisabled
<1>2. CASE SubContinues
  BY <1>2 DEF SubContinues, SubscriberStore, RequestIdleStore, RequestIdleSet
<1>3. CASE SrvContinues
  BY <1>3 DEF SrvContinues, RequestIdleStore, RequestIdleSet, ServiceStore, ServiceSet,
              ServiceBeginWait, ServiceReturn, SetEnabledStore
<1>4. CASE CanStep
  <2>1. CASE LoopCheck \/ EpollWait
    BY <2>1 DEF LoopCheck, EpollWait
  <2>2. ASSUME NEW e, NEW handler, OnTrigger(e, handler) PROVE Batched'
    BY <2>2 DEF OnTrigger
  <2>3. CASE OnSocket \/ RecvIgnored \/ RecvDrained
    BY <2>3 DEF OnSocket, RecvIgnored, RecvDrained
  <2>4. ASSUME NEW h \in Heartbeats, RecvHeartbeat(h) PROVE Batched'
    BY <2>4 DEF RecvHeartbeat
  <2>5. CASE RequestStateRead \/ RequestStateSend \/ RequestClearErrors
    BY <2>5 DEF RequestStateRead, RequestStateSend, RequestClearErrors
  <2>6. CASE CtrlLoadEnabled \/ CtrlLoadDrivestop \/ CtrlCopy \/ CtrlSend
    BY <2>6 DEF CtrlLoadEnabled, CtrlLoadDrivestop, CtrlCopy, CtrlSend
  <2> QED BY <1>4, <2>1, <2>2, <2>3, <2>4, <2>5, <2>6 DEF CanStep, CanServes
<1>5. CASE MainStep
  BY <1>5 DEF MainStep, NodeInit, NodeInitFails, SpinReturns, JoinAndDeinit, Ended, vars
<1>6. CASE FrameArrives
  BY <1>6 DEF FrameArrives
<1>7. CASE UNCHANGED vars
  BY <1>7 DEF vars
<1>9. CASE EpollInterrupted
  BY <1>9 DEF EpollInterrupted
<1> QED BY <1>1, <1>2, <1>3, <1>4, <1>5, <1>6, <1>7, <1>9 DEF Next

\* A step that touches neither the events nor the loop is not seen.
LEMMA Unseen ==
  ASSUME pc'["can"] = pc["can"], pc'["main"] = pc["main"],
         \A e \in EpollEvents : evt'[e] = evt[e]
  PROVE  UNCHANGED Signals!vars
BY DEF Signals!vars, Opened, Signalled, Handling

\* EpollEvent::set on an executor thread.
LEMMA SetSeen ==
  ASSUME TypeOK, NEW e \in EpollEvents, Spinning, evt' = [evt EXCEPT ![e] = TRUE],
         pc'["can"] = pc["can"], pc'["main"] = pc["main"]
  PROVE  Signals!Set(e)
<1>1. Signalled' = Signalled \cup {e}
  BY DEF TypeOK, Signalled, Opened, Spinning, EpollEvents, Events
<1> QED BY <1>1 DEF Signals!Set, Opened, Handling, Spinning

\* on_trigger, and the end of the callback.
LEMMA ServeSeen ==
  ASSUME Core, Batched, NEW e \in EpollEvents, NEW handler, OnTrigger(e, handler),
         \/ e = "sub" /\ handler = "ctrl"
         \/ e = "srv" /\ handler = "state"
         \/ e = "clr" /\ handler = "clear"
  PROVE  Signals!Serve(e)
<1> USE DEF OnTrigger, Goto, Core, TypeOK, Threads, EpollEvents, Events
<1>1. Opened /\ Opened' /\ e \in Signalled
  BY DEF Batched, Phases, Opened, Signalled, MainPoints
<1>2. Signalled' = Signalled \ {e}
  BY <1>1 DEF Signalled
<1>3. Handling = NoValue /\ Handling' = e
  BY DEF Handling
<1>4. pc["can"] # "exited" /\ pc["main"] # "failed" /\ pc'["can"] # "exited"
      /\ pc'["main"] # "failed"
  BY <1>1 DEF Opened
<1> QED BY <1>1, <1>2, <1>3, <1>4 DEF Signals!Serve

LEMMA DoneSeen ==
  ASSUME Core, NEW from, Goto("can", from, "batch"), UNCHANGED evt,
         from \in {"ctrl", "ctrl_stop", "ctrl_send", "state_send", "clear"}
  PROVE  Signals!Done
<1> USE DEF Goto, Core, TypeOK, Threads
<1>1. Handling # NoValue /\ Handling' = NoValue
  BY DEF Handling, NoValue
<1>2. Opened' = Opened /\ Signalled' = Signalled
  BY DEF Opened, Signalled
<1>3. pc["can"] # "exited" /\ pc'["can"] # "exited" /\ pc'["main"] = pc["main"]
  OBVIOUS
<1> QED BY <1>1, <1>2, <1>3 DEF Signals!Done

LEMMA InsideSeen ==
  ASSUME Core, NEW from, NEW to, Goto("can", from, to),
         \A e \in EpollEvents : evt'[e] = evt[e],
         \/ {from, to} \subseteq {"batch", "wait", "recv"}
         \/ {from, to} \subseteq {"ctrl", "ctrl_stop", "ctrl_copy", "ctrl_send"}
         \/ {from, to} \subseteq {"state", "state_send"}
  PROVE  UNCHANGED Signals!vars
<1> USE DEF Goto, Core, TypeOK, Threads
<1>1. Handling' = Handling
  BY DEF Handling
<1>2. pc'["main"] = pc["main"] /\ pc'["can"] # "exited" /\ pc["can"] # "exited"
  OBVIOUS
<1> QED BY <1>1, <1>2 DEF Signals!vars, Opened, Signalled

LEMMA SignalsStep ==
  ASSUME Core, Batched, [Next]_vars
  PROVE  [Signals!Next]_Signals!vars
<1> USE DEF Goto, Threads
<1>0. pc \in [Threads -> SubPoints \cup SrvPoints \cup CanPoints \cup MainPoints] /\ TypeOK
  BY DEF Core, TypeOK
<1>1. CASE CallbackBegins
  <2>1. CASE ServiceClearErrors
    <3>1. Signals!Set("clr")
      BY <1>0, <2>1, SetSeen DEF ServiceClearErrors, EpollEvents
    <3> QED BY <3>1 DEF Signals!Next, EpollEvents
  <2>2. CASE ~ServiceClearErrors
    <3>1. UNCHANGED evt /\ pc'["can"] = pc["can"] /\ pc'["main"] = pc["main"]
      BY <1>0, <1>1, <2>2 DEF CallbackBegins, SubscriberCallback, DrivestopCallback,
         ServiceAccept, SetEnabledCheck, SetDisabled
    <3> QED BY <3>1, Unseen
  <2> QED BY <2>1, <2>2
<1>2. CASE SubContinues \/ SrvContinues
  <2>1. CASE RequestIdleSet("sub") \/ RequestIdleSet("srv") \/ ServiceSet
    <3>1. Spinning
      BY <1>0, <2>1 DEF Core, Core, Passive, Phases, RequestIdleSet, ServiceSet, Spinning, TypeOK, MainPoints
    <3>2. Signals!Set("srv")
      BY <1>0, <2>1, <3>1, SetSeen DEF RequestIdleSet, ServiceSet, EpollEvents
    <3> QED BY <3>2 DEF Signals!Next, EpollEvents
  <2>2. CASE SubscriberStore
    <3>1. Spinning
      BY <1>0, <2>2 DEF Core, Core, Passive, Phases, SubscriberStore, Spinning, TypeOK, MainPoints
    <3>2. Signals!Set("sub")
      BY <1>0, <2>2, <3>1, SetSeen DEF SubscriberStore, EpollEvents
    <3> QED BY <3>2 DEF Signals!Next, EpollEvents
  <2>3. CASE \/ RequestIdleStore("sub") \/ RequestIdleStore("srv") \/ ServiceStore
             \/ ServiceBeginWait \/ ServiceReturn \/ SetEnabledStore
    <3>1. UNCHANGED evt /\ pc'["can"] = pc["can"] /\ pc'["main"] = pc["main"]
      BY <1>0, <2>3 DEF RequestIdleStore, ServiceStore, ServiceBeginWait, ServiceReturn,
         SetEnabledStore
    <3> QED BY <3>1, Unseen
  <2> QED BY <1>2, <2>1, <2>2, <2>3 DEF SubContinues, SrvContinues
<1>3. CASE CanStep
  <2>1. CASE LoopCheck
    <3>1. CASE StopRequested
      <4>1. Signals!Return
        BY <1>0, <2>1, <3>1 DEF LoopCheck, Signals!Return, Handling, Opened, Signalled
      <4> QED BY <4>1 DEF Signals!Next
    <3>2. CASE ~StopRequested
      BY <2>1, <3>2, InsideSeen DEF LoopCheck
    <3> QED BY <3>1, <3>2
  <2>2. CASE EpollWait \/ OnSocket \/ RecvDrained
    BY <2>2, InsideSeen DEF EpollWait, OnSocket, RecvDrained
  <2>3. CASE RecvIgnored \/ \E h \in Heartbeats : RecvHeartbeat(h)
    BY <1>0, <2>3, Unseen DEF RecvIgnored, RecvHeartbeat, TypeOK, EpollEvents, Events
  <2>4. CASE OnTrigger("sub", "ctrl") \/ OnTrigger("srv", "state") \/ OnTrigger("clr", "clear")
    <3>1. \E e \in EpollEvents : Signals!Serve(e)
      BY <2>4, ServeSeen DEF EpollEvents
    <3> QED BY <3>1 DEF Signals!Next
  <2>5. CASE OnTrigger("stop", "batch")
    <3>1. pc'["can"] = pc["can"] /\ pc'["main"] = pc["main"]
      BY <1>0, <2>5 DEF OnTrigger
    <3>2. \A e \in EpollEvents : evt'[e] = evt[e]
      BY <1>0, <2>5 DEF OnTrigger, EpollEvents, TypeOK, Events
    <3> QED BY <3>1, <3>2, Unseen
  <2>6. CASE RequestStateRead \/ CtrlCopy
    BY <2>6, InsideSeen DEF RequestStateRead, CtrlCopy
  <2>7. CASE RequestStateSend \/ RequestClearErrors \/ CtrlSend
    <3>1. Signals!Done
      BY <2>7, DoneSeen DEF RequestStateSend, RequestClearErrors, CtrlSend
    <3> QED BY <3>1 DEF Signals!Next
  <2>8. CASE CtrlLoadEnabled
    <3>1. CASE enabled
      BY <2>8, <3>1, InsideSeen DEF CtrlLoadEnabled
    <3>2. CASE ~enabled
      <4>1. Signals!Done
        BY <2>8, <3>2, DoneSeen DEF CtrlLoadEnabled
      <4> QED BY <4>1 DEF Signals!Next
    <3> QED BY <3>1, <3>2
  <2>9. CASE CtrlLoadDrivestop
    <3>1. CASE ~drivestop_active
      BY <2>9, <3>1, InsideSeen DEF CtrlLoadDrivestop
    <3>2. CASE drivestop_active
      <4>1. Signals!Done
        BY <2>9, <3>2, DoneSeen DEF CtrlLoadDrivestop
      <4> QED BY <4>1 DEF Signals!Next
    <3> QED BY <3>1, <3>2
  <2> QED BY <1>3, <2>1, <2>2, <2>3, <2>4, <2>5, <2>6, <2>7, <2>8, <2>9 DEF CanStep, CanServes
<1>4. CASE MainStep
  <2>1. CASE NodeInit
    <3>1. ~Opened /\ Opened' /\ Signalled = {} /\ Signalled' = {}
      BY <1>0, <2>1 DEF NodeInit, Opened, Signalled, EpollEvents, Core, Phases, Batched
    <3>2. Signals!Open(EpollEvents)
      BY <1>0, <2>1, <3>1 DEF NodeInit, Signals!Open, Handling, Core, Phases
    <3> QED BY <3>2 DEF Signals!Next
  <2>2. CASE NodeInitFails
    <3>1. Signals!Return
      BY <1>0, <2>2 DEF NodeInitFails, Signals!Return, Handling, Opened, Signalled, Core, Phases
    <3> QED BY <3>1 DEF Signals!Next
  <2>3. CASE SpinReturns
    <3>1. \A e \in EpollEvents : evt'[e] = evt[e]
      BY <1>0, <2>3 DEF SpinReturns, EpollEvents, TypeOK, Events
    <3> QED BY <1>0, <2>3, <3>1 DEF SpinReturns, Signals!vars, Opened, Signalled, Handling
  <2>4. CASE JoinAndDeinit
    <3>1. Opened /\ ~Opened' /\ Signalled' = Signalled \ EpollEvents
      BY <1>0, <2>4 DEF JoinAndDeinit, Opened, Signalled
    <3>2. Signals!Close(EpollEvents)
      BY <1>0, <2>4, <3>1 DEF JoinAndDeinit, Signals!Close, Handling
    <3> QED BY <3>2 DEF Signals!Next
  <2>5. CASE Ended
    BY <2>5, Unseen DEF Ended, vars
  <2> QED BY <1>4, <2>1, <2>2, <2>3, <2>4, <2>5 DEF MainStep
<1>5. CASE FrameArrives
  BY <1>0, <1>5, Unseen DEF FrameArrives, TypeOK, EpollEvents, Events
<1>6. CASE UNCHANGED vars
  BY <1>6, Unseen DEF vars
<1>9. CASE EpollInterrupted
  <2>1. Signals!Return
    BY <1>0, <1>9 DEF EpollInterrupted, Signals!Return, Handling, Opened, Signalled
  <2> QED BY <2>1 DEF Signals!Next
<1> QED BY <1>1, <1>2, <1>3, <1>4, <1>5, <1>6, <1>9 DEF Next

\* Of the command path's three events: a callback runs only after its event
\* was set, callbacks run one at a time, and none runs after the loop
\* returned.
THEOREM NodeImplementsSignal == Spec => Signals!Spec
<1>1. Init => Signals!Init
  BY DEF Init, Signals!Init, Opened, Signalled, Handling, Threads
<1>2. Init => Batched
  BY DEF Init, Batched, Events, Threads, EpollEvents
<1>3. Core /\ Batched /\ [Next]_vars => Batched'
  BY BatchedStep
<1>4. Core /\ Batched /\ [Next]_vars => [Signals!Next]_Signals!vars
  BY SignalsStep
<1>5. Spec => []Core
  BY Invariance, PTL DEF IInv
<1> QED BY <1>1, <1>2, <1>3, <1>4, <1>5, PTL DEF Spec, Signals!Spec
=============================================================================
