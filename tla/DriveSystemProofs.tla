------------------------- MODULE DriveSystemProofs --------------------------
(***************************************************************************)
(* What request_axis_state answers, and the node's picture of the drive,   *)
(* for every value of the constants: any number of heartbeats under way,   *)
(* any procedures, messages and services.                                  *)
(*                                                                         *)
(* The invariant follows a heartbeat from the drive through the queue into *)
(* ctrl_stat_: at each place one that fits the call was seen.  The mode    *)
(* cache agrees with the drive because CtrlSend alone changes either.      *)
(* What the node's theorems say of the latches is carried on to the axis.  *)
(***************************************************************************)
EXTENDS DriveSystem, CustomODriveNodeProofs, SequenceTheorems

Serving == {"store_request", "set_request", "begin_wait", "waiting"}

SysIInv ==
  /\ TypeOK
  /\ DriveTypeOK
  /\ pc["srv"] \in Serving => srv_req # NoValue
  /\ srv_req # NoValue => \A i \in DOMAIN rx : Fits(rx[i], srv_req) => seen
  /\ Succeeds => seen
  /\ pc["main"] = "init" => pc["can"] = "off"
  /\ CachedModeIsTrue

-----------------------------------------------------------------------------
\* What a step of the node that reads no heartbeat does to the call being
\* served.
CallKept ==
  \/ srv_req' # NoValue /\ pc'["srv"] = "store_request"
  \/ srv_req' = NoValue /\ pc'["srv"] = "idle"
  \/ /\ srv_req' = srv_req /\ ctrl_stat' = ctrl_stat
     /\ pc'["srv"] \in Serving => pc["srv"] \in Serving
     /\ pc'["srv"] = "waiting" /\ fresh' => pc["srv"] = "waiting" /\ fresh

NodeActs ==
  \/ CallbackBegins \/ SubContinues \/ SrvContinues \/ CanServes \/ EpollInterrupted
  \/ MainStep \/ FrameArrives

LEMMA CallKeptByNode == ASSUME TypeOK, NodeActs PROVE CallKept
<1> USE InputsAssumption
<1> USE DEF TypeOK, Goto, latches, mail, status, canVars, Threads, CallKept, Serving
<1>1. CASE CallbackBegins
  <2>1. ASSUME NEW m \in ControlMessages, SubscriberCallback(m) PROVE CallKept
    BY <2>1 DEF SubscriberCallback
  <2>2. ASSUME NEW b \in DrivestopMsgs, DrivestopCallback(b) PROVE CallKept
    BY <2>2 DEF DrivestopCallback
  <2>3. ASSUME NEW s \in AxisRequests, ServiceAccept(s) PROVE CallKept
    BY <2>3 DEF ServiceAccept
  <2>4. CASE ServiceClearErrors
    BY <2>4 DEF ServiceClearErrors
  <2>5. CASE SetEnabledCheck
    BY <2>5 DEF SetEnabledCheck
  <2>6. CASE SetDisabled
    BY <2>6 DEF SetDisabled
  <2> QED BY <1>1, <2>1, <2>2, <2>3, <2>4, <2>5, <2>6 DEF CallbackBegins
<1>2. CASE SubContinues
  BY <1>2 DEF SubContinues, SubscriberStore, RequestIdleStore, RequestIdleSet
<1>3. CASE SrvContinues
  <2>1. CASE RequestIdleStore("srv")
    BY <2>1 DEF RequestIdleStore
  <2>2. CASE RequestIdleSet("srv")
    BY <2>2 DEF RequestIdleSet
  <2>3. CASE ServiceStore
    BY <2>3 DEF ServiceStore
  <2>4. CASE ServiceSet
    BY <2>4 DEF ServiceSet
  <2>5. CASE ServiceBeginWait
    BY <2>5 DEF ServiceBeginWait
  <2>6. CASE ServiceReturn
    BY <2>6 DEF ServiceReturn
  <2>7. CASE SetEnabledStore
    BY <2>7 DEF SetEnabledStore
  <2> QED BY <1>3, <2>1, <2>2, <2>3, <2>4, <2>5, <2>6, <2>7 DEF SrvContinues
<1>4. CASE CanServes
  BY <1>4 DEF CanServes, LoopCheck, EpollWait, OnTrigger, OnSocket, RecvIgnored, RecvDrained,
     RequestStateRead, RequestStateSend, RequestClearErrors, CtrlLoadEnabled,
     CtrlLoadDrivestop, CtrlCopy, CtrlSend
<1>5. CASE MainStep
  BY <1>5 DEF MainStep, NodeInit, NodeInitFails, SpinReturns, JoinAndDeinit, Ended, vars
<1>6. CASE FrameArrives
  BY <1>6 DEF FrameArrives
<1>9. CASE EpollInterrupted
  BY <1>9 DEF EpollInterrupted
<1> QED BY <1>1, <1>2, <1>3, <1>4, <1>5, <1>6, <1>9 DEF NodeActs

\* CtrlSend alone touches the mode, at either end.
ModeKept ==
  /\ mode_sent' = mode_sent /\ drive'.mode = drive.mode
  /\ pc["can"] = "ctrl_send" => pc'["can"] = "ctrl_send"

LEMMA ModeKeptByNode ==
  ASSUME TypeOK, pc["main"] = "init" => pc["can"] = "off", NodeActs
  PROVE  CtrlSend \/ ModeKept
<1> USE InputsAssumption
<1> USE DEF TypeOK, Goto, latches, mail, status, canVars, Threads, ModeKept
<1>1. CASE CallbackBegins
  BY <1>1 DEF CallbackBegins, SubscriberCallback, DrivestopCallback, ServiceAccept,
     ServiceClearErrors, SetEnabledCheck, SetDisabled
<1>2. CASE SubContinues
  BY <1>2 DEF SubContinues, SubscriberStore, RequestIdleStore, RequestIdleSet
<1>3. CASE SrvContinues
  BY <1>3 DEF SrvContinues, RequestIdleStore, RequestIdleSet, ServiceStore, ServiceSet,
     ServiceBeginWait, ServiceReturn, SetEnabledStore
<1>4. CASE CanServes
  <2>1. CASE RequestStateSend
    BY <2>1, StateRequestSent DEF RequestStateSend
  <2>2. CASE RequestClearErrors
    BY <2>2, ClearErrorsSent DEF RequestClearErrors
  <2> QED BY <1>4, <2>1, <2>2 DEF CanServes, LoopCheck, EpollWait, OnTrigger, OnSocket,
     RecvIgnored, RecvDrained, RequestStateRead, CtrlLoadEnabled, CtrlLoadDrivestop, CtrlCopy
<1>5. CASE MainStep
  <2>1. CASE NodeInit
    <3>1. IDLE \in AxisValues
      BY DEF AxisValues
    <3>2. drive'.mode = drive.mode
      BY <2>1, <3>1, StateRequestSent DEF NodeInit
    <3> QED BY <2>1, <3>2 DEF NodeInit
  <2>2. CASE JoinAndDeinit
    <3>1. IDLE \in AxisValues
      BY DEF AxisValues
    <3>2. drive'.mode = drive.mode
      BY <2>2, <3>1, AxisStateSent DEF JoinAndDeinit
    <3> QED BY <2>2, <3>2 DEF JoinAndDeinit
  <2> QED BY <1>5, <2>1, <2>2 DEF MainStep, NodeInitFails, SpinReturns, Ended, vars
<1>6. CASE FrameArrives
  BY <1>6 DEF FrameArrives
<1>9. CASE EpollInterrupted
  BY <1>9 DEF EpollInterrupted
<1> QED BY <1>1, <1>2, <1>3, <1>4, <1>5, <1>6, <1>9 DEF NodeActs

LEMMA OffUntilInit ==
  ASSUME TypeOK, pc["main"] = "init" => pc["can"] = "off", NodeActs
  PROVE  pc'["main"] = "init" => pc'["can"] = "off"
<1> USE DEF TypeOK, Goto, Threads
<1>1. CASE CallbackBegins
  BY <1>1 DEF CallbackBegins, SubscriberCallback, DrivestopCallback, ServiceAccept,
     ServiceClearErrors, SetEnabledCheck, SetDisabled
<1>2. CASE SubContinues
  BY <1>2 DEF SubContinues, SubscriberStore, RequestIdleStore, RequestIdleSet
<1>3. CASE SrvContinues
  BY <1>3 DEF SrvContinues, RequestIdleStore, RequestIdleSet, ServiceStore, ServiceSet,
     ServiceBeginWait, ServiceReturn, SetEnabledStore
<1>4. CASE CanServes
  BY <1>4 DEF CanServes, LoopCheck, EpollWait, OnTrigger, OnSocket, RecvIgnored, RecvDrained,
     RequestStateRead, RequestStateSend, RequestClearErrors, CtrlLoadEnabled,
     CtrlLoadDrivestop, CtrlCopy, CtrlSend
<1>5. CASE MainStep
  BY <1>5 DEF MainStep, NodeInit, NodeInitFails, SpinReturns, JoinAndDeinit, Ended, vars
<1>6. CASE FrameArrives
  BY <1>6 DEF FrameArrives
<1>9. CASE EpollInterrupted
  BY <1>9 DEF EpollInterrupted
<1> QED BY <1>1, <1>2, <1>3, <1>4, <1>5, <1>6, <1>9 DEF NodeActs

\* A mode frame that was due and is not in effect was sent and lost.
LEMMA ModeSent ==
  ASSUME TypeOK, CachedModeIsTrue, CtrlSend, Forgets
  PROVE  CachedModeIsTrue'
<1>1. /\ pc["can"] = "ctrl_send" /\ pc'["can"] # "ctrl_send"
      /\ drive' \in SendSetpoint(drive, can_msg) /\ mode_sent' = ModeOf(can_msg)
  BY DEF CtrlSend, Goto, TypeOK, Threads
<1>2. forgot' = (/\ drive'.mode # ModeOf(can_msg)
                 /\ forgot \/ \E d \in SendSetpoint(drive, can_msg) : d.mode = ModeOf(can_msg))
  BY <1>1 DEF Forgets
<1>3. CASE drive'.mode = ModeOf(can_msg)
  BY <1>1, <1>3 DEF CachedModeIsTrue
<1>4. CASE drive'.mode # ModeOf(can_msg) /\ forgot
  BY <1>2, <1>4 DEF CachedModeIsTrue
<1>5. CASE drive'.mode # ModeOf(can_msg) /\ ~forgot
  <2> DEFINE told == SetControllerMode(drive, can_msg)
             given == SetInput(told, can_msg)
  <2>1. drive \in DriveStates /\ drive.mode = mode_sent
    BY <1>5 DEF TypeOK, CachedModeIsTrue
  <2>2. mode_sent # ModeOf(can_msg)
    <3> SUFFICES ASSUME mode_sent = ModeOf(can_msg) PROVE FALSE
      OBVIOUS
    <3>1. drive' \in {drive} \cup Sent(drive, SetInput(drive, can_msg))
      BY <1>1 DEF SendSetpoint
    <3> QED BY <1>5, <2>1, <3>1 DEF Sent, SetInput, DriveStates
  <2>3. told.mode = ModeOf(can_msg) /\ given.mode = ModeOf(can_msg)
    BY <2>1 DEF SetControllerMode, SetInput, DriveStates
  <2>4. told \in SendSetpoint(drive, can_msg) \/ given \in SendSetpoint(drive, can_msg)
    BY <2>2 DEF SendSetpoint, Sent
  <2> QED BY <1>2, <1>5, <2>3, <2>4 DEF CachedModeIsTrue
<1> QED BY <1>3, <1>4, <1>5

\* Heartbeats are read in their order, and what the queue holds is typed.
LEMMA QueueTyped ==
  ASSUME DriveTypeOK, rx # <<>>
  PROVE  /\ Head(rx) = rx[1] /\ 1 \in DOMAIN rx /\ Head(rx) \in AxisReports
         /\ Tail(rx) \in Seq(AxisReports) /\ Len(Tail(rx)) <= MaxRx
         /\ \A i \in DOMAIN Tail(rx) : i + 1 \in DOMAIN rx /\ Tail(rx)[i] = rx[i + 1]
  BY DriveAssumption, HeadTailProperties DEF DriveTypeOK

\* A step keeps the types of the base module, also when a heartbeat is read
\* or the drive acts on its own.
LEMMA SysTypeStep ==
  ASSUME TypeOK, NodeActs \/ Receives \/ DriveStep
  PROVE  TypeOK'
<1>1. CASE NodeActs
  BY <1>1, TypeStep DEF NodeActs, Next, CanStep
<1>2. CASE Receives
  BY <1>2 DEF Receives, RecvHeartbeat, TypeOK, latches, mail, canVars, Events
<1>3. CASE SendHeartbeat \/ ProcedureEnds
  BY <1>3 DEF SendHeartbeat, ProcedureEnds, TypeOK, vars, latches, mail, status, canVars
<1>4. CASE Disarms
  <2>1. drive' \in DriveStates
    BY <1>4 DEF Disarms, TypeOK, DriveStates
  <2> QED BY <1>4, <2>1 DEF Disarms, TypeOK, latches, mail, status, canVars
<1>5. CASE Reboots
  <2>1. NoMode \in Modes
    <3>1. NoMessage \in AnyMessage
      BY DEF AnyMessage
    <3>2. ModeOf(NoMessage) = NoMode
      BY DEF NoMode, ModeOf, NoMessage
    <3> QED BY <3>1, <3>2, ModeOfType
  <2>2. drive' \in DriveStates
    BY <1>5, <2>1 DEF Reboots, TypeOK, DriveStates, AnyMessage
  <2> QED BY <1>5, <2>2 DEF Reboots, TypeOK, latches, mail, status, canVars
<1> QED BY <1>1, <1>2, <1>3, <1>4, <1>5 DEF DriveStep

\* The drive does what a node of that type asks.
LEMMA FollowsTyped ==
  ASSUME TypeOK, DriveTypeOK, Follows
  PROVE  axis' \in AxisReports
<1>1. Asked \in AxisValues
  BY DEF Asked, TypeOK, AxisValues
<1>2. ASSUME NEW s \in AxisValues PROVE Obeyed(s) \subseteq AxisReports
  BY <1>2 DEF Obeyed, AxisReports, AxisValues, Resting, Failed, Report, DriveTypeOK
<1> QED BY <1>1, <1>2 DEF Follows, DriveTypeOK

LEMMA DriveTypeStep ==
  ASSUME TypeOK, DriveTypeOK, SysNext
  PROVE  DriveTypeOK'
<1>1. seen' \in BOOLEAN
  BY DEF SysNext, Sees
<1>2. CASE NodeStep
  <2>1. Follows /\ Forgets /\ UNCHANGED rx
    BY <1>2 DEF NodeStep, Serves
  <2>2. forgot' \in BOOLEAN
    BY <2>1 DEF Forgets, DriveTypeOK
  <2> QED BY <1>1, <2>1, <2>2, FollowsTyped DEF DriveTypeOK
<1>3. CASE Receives
  <2>1. rx # <<>> /\ rx' = Tail(rx) /\ axis' = axis /\ forgot' = forgot
    BY <1>3 DEF Receives
  <2>2. rx' \in Seq(AxisReports) /\ Len(rx') <= MaxRx
    BY <2>1, QueueTyped
  <2> QED BY <1>1, <2>1, <2>2 DEF DriveTypeOK
<1>4. CASE SendHeartbeat
  <2>1. Append(rx, axis) \in Seq(AxisReports) /\ Len(Append(rx, axis)) = Len(rx) + 1
    BY AppendProperties DEF DriveTypeOK
  <2>2. Len(rx) \in Nat /\ Len(rx) < MaxRx
    BY <1>4, LenProperties DEF SendHeartbeat, DriveTypeOK
  <2> QED BY <1>1, <1>4, <2>1, <2>2, DriveAssumption DEF SendHeartbeat, DriveTypeOK
<1>5. CASE ProcedureEnds \/ Disarms \/ Reboots
  <2>1. axis' \in AxisReports
    BY <1>5 DEF ProcedureEnds, Disarms, Reboots, AxisReports, Resting, Failed, Report
  <2>2. rx' = rx /\ (forgot' = forgot \/ forgot' = TRUE)
    BY <1>5 DEF ProcedureEnds, Disarms, Reboots
  <2>3. forgot' \in BOOLEAN
    BY <2>2, Zenon DEF DriveTypeOK
  <2> QED BY <1>1, <2>1, <2>2, <2>3, Zenon DEF DriveTypeOK
<1> QED BY <1>2, <1>3, <1>4, <1>5 DEF SysNext, DriveStep

-----------------------------------------------------------------------------
\* What is in the queue was seen.
QueueSeen == srv_req # NoValue => \A i \in DOMAIN rx : Fits(rx[i], srv_req) => seen

LEMMA QueueSeenStep == Sees => QueueSeen'
  BY DEF Sees, QueueSeen

\* What was seen of a call stays seen until it returns.
LEMMA SeenStays == Sees /\ seen => srv_req' = NoValue \/ seen'
  BY DEF Sees

LEMMA SysStep ==
  ASSUME SysIInv, SysNext
  PROVE  SysIInv'
<1> USE DEF SysIInv
<1>0. Sees
  BY DEF SysNext
<1>1. TypeOK' /\ DriveTypeOK'
  <2>1. NodeActs \/ Receives \/ DriveStep
    BY DEF SysNext, NodeStep, Serves, NodeActs
  <2> QED BY <2>1, SysTypeStep, DriveTypeStep
<1>2. QueueSeen'
  BY <1>0, QueueSeenStep
<1>3. CASE NodeStep
  <2>1. NodeActs /\ Forgets
    BY <1>3 DEF NodeStep, Serves, NodeActs
  <2>2. CallKept
    BY <2>1, CallKeptByNode
  <2>3. pc'["srv"] \in Serving => srv_req' # NoValue
    BY <2>2 DEF CallKept, Serving
  <2>4. Succeeds' => seen'
    <3> SUFFICES ASSUME Succeeds' PROVE seen'
      OBVIOUS
    <3>1. pc'["srv"] = "waiting" /\ Confirmed'
      BY DEF Succeeds
    <3>2. /\ srv_req' = srv_req /\ ctrl_stat' = ctrl_stat
          /\ pc["srv"] = "waiting" /\ fresh
      BY <2>2, <3>1 DEF CallKept, Confirmed
    <3>3. Succeeds
      BY <3>1, <3>2 DEF Succeeds, Confirmed
    <3> QED BY <1>0, <2>3, <3>1, <3>3, SeenStays DEF Serving
  <2>5. pc'["main"] = "init" => pc'["can"] = "off"
    BY <2>1, OffUntilInit
  <2>6. CachedModeIsTrue'
    <3>1. CASE CtrlSend
      BY <2>1, <3>1, ModeSent
    <3>2. CASE ModeKept
      BY <2>1, <3>2 DEF ModeKept, Forgets, CachedModeIsTrue
    <3> QED BY <2>1, <3>1, <3>2, ModeKeptByNode
  <2> QED BY <1>1, <1>2, <2>3, <2>4, <2>5, <2>6 DEF QueueSeen
<1>4. CASE Receives
  <2>1. /\ rx # <<>> /\ ctrl_stat' = Head(rx)
        /\ pc' = pc /\ srv_req' = srv_req /\ mode_sent' = mode_sent
        /\ drive' = drive /\ forgot' = forgot
    BY <1>4 DEF Receives, RecvHeartbeat, canVars
  <2>2. Succeeds' => seen'
    <3> SUFFICES ASSUME Succeeds' PROVE seen'
      OBVIOUS
    <3>1. pc["srv"] = "waiting" /\ Fits(Head(rx), srv_req)
      BY <2>1 DEF Succeeds, Confirmed, Fits
    <3>2. srv_req # NoValue
      BY <3>1 DEF Serving
    <3>3. seen
      BY <2>1, <3>1, <3>2, QueueTyped
    <3> QED BY <1>0, <2>1, <3>2, <3>3, SeenStays
  <2> QED BY <1>1, <1>2, <2>1, <2>2 DEF QueueSeen, CachedModeIsTrue
<1>5. CASE DriveStep
  <2>1. /\ pc' = pc /\ srv_req' = srv_req /\ mode_sent' = mode_sent
        /\ ctrl_stat' = ctrl_stat /\ fresh' = fresh
    BY <1>5 DEF DriveStep, SendHeartbeat, ProcedureEnds, Disarms, Reboots, vars, status, canVars
  <2>2. Succeeds' => seen'
    <3> SUFFICES ASSUME Succeeds' PROVE seen'
      OBVIOUS
    <3>1. Succeeds /\ srv_req # NoValue
      BY <2>1 DEF Succeeds, Confirmed, Serving
    <3> QED BY <1>0, <2>1, <3>1, SeenStays
  <2>3. CachedModeIsTrue'
    <3>1. CASE SendHeartbeat \/ ProcedureEnds
      BY <3>1 DEF SendHeartbeat, ProcedureEnds, vars, canVars, CachedModeIsTrue
    <3>2. CASE Disarms
      BY <2>1, <3>2 DEF Disarms, CachedModeIsTrue, TypeOK, DriveStates
    <3>3. CASE Reboots
      BY <3>3 DEF Reboots, CachedModeIsTrue
    <3> QED BY <1>5, <3>1, <3>2, <3>3 DEF DriveStep
  <2> QED BY <1>1, <1>2, <2>1, <2>2, <2>3 DEF QueueSeen
<1> QED BY <1>3, <1>4, <1>5 DEF SysNext

LEMMA SysInitInv == ASSUME SysInit PROVE SysIInv
<1>1. TypeOK
  BY InitType DEF SysInit
<1>2. DriveTypeOK
  <2>1. <<>> \in Seq(AxisReports) /\ Len(<<>>) = 0
    BY LenProperties
  <2>2. axis \in AxisReports
    BY DEF SysInit, AxisReports, Resting, Failed, Report
  <2>4. seen \in BOOLEAN /\ forgot \in BOOLEAN
    BY Zenon DEF SysInit
  <2>3. rx \in Seq(AxisReports) /\ Len(rx) <= MaxRx
    BY <2>1, DriveAssumption DEF SysInit
  <2> QED BY <2>2, <2>3, <2>4 DEF DriveTypeOK
<1>3. /\ pc["srv"] = "idle" /\ pc["can"] = "off" /\ ~fresh
      /\ mode_sent = NoMode /\ drive.mode = NoMode /\ srv_req = NoValue
  BY DEF SysInit, Init, Threads
<1> QED BY <1>1, <1>2, <1>3 DEF SysIInv, Serving, Succeeds, CachedModeIsTrue

LEMMA SysInvariance == SysSpec => []SysIInv
<1>1. SysIInv /\ UNCHANGED sysVars => SysIInv'
  BY DEF SysIInv, sysVars, driveVars, vars, latches, mail, status, canVars, TypeOK,
     DriveTypeOK, Succeeds, Confirmed, CachedModeIsTrue
<1> QED BY <1>1, SysInitInv, SysStep, PTL DEF SysSpec

-----------------------------------------------------------------------------
\* Every variable of the node and of its drive has its type, with frames
\* lost, faults and reboots.
THEOREM SystemTyped == SysSpec => [](TypeOK /\ DriveTypeOK)
<1>1. SysIInv => TypeOK /\ DriveTypeOK
  BY DEF SysIInv
<1> QED BY <1>1, SysInvariance, PTL

\* request_axis_state never answers "success" on the strength of a status it
\* had before, or while a procedure runs.
THEOREM SuccessTheorem == SysSpec => []SuccessIsTrue
<1>1. SysIInv => SuccessIsTrue
  BY DEF SysIInv, SuccessIsTrue
<1> QED BY <1>1, SysInvariance, PTL

\* Only a lost mode frame or a reboot separates the node's cached mode from
\* the drive's.
THEOREM CachedModeTheorem == SysSpec => []CachedModeIsTrue
<1>1. SysIInv => CachedModeIsTrue
  BY DEF SysIInv
<1> QED BY <1>1, SysInvariance, PTL

-----------------------------------------------------------------------------
(* The latches, from the node to the axis.  The core of the node's         *)
(* invariant does not depend on what the drive does by itself, so it holds *)
(* in the system, and with it what the node's theorems say; what is added  *)
(* is that a drive that was last told IDLE is in it.                       *)

IdleIsObeyed == drive.requested = IDLE => axis.axis_state = IDLE

LatchIInv == Core /\ DriveTypeOK /\ IdleIsObeyed

\* The drive's own steps leave what it was told.
LEMMA DriveStepTold == DriveStep /\ TypeOK => drive'.requested = drive.requested
  BY DEF DriveStep, SendHeartbeat, ProcedureEnds, Disarms, Reboots, vars, TypeOK, DriveStates

LEMMA CoreKept ==
  ASSUME Core, NodeActs \/ Receives \/ DriveStep
  PROVE  Core'
<1>1. CASE NodeActs
  <2>1. Next
    BY <1>1 DEF NodeActs, Next, CanStep
  <2> QED BY <2>1, EachStep
<1> USE DEF Core, Phases, Filled, LateSetpointIsFollowed, Handoff, Disabled, ShutdownLeavesIdle,
            MailboxesFilled, NewestStateDelivered, DisableSticks, NoHalfRequest,
            StateHandoffDone, Motion
<1>0. CASE Receives \/ DriveStep
  <2>1. TypeOK'
    BY <1>0, SysTypeStep
  <2>2. CASE Receives
    BY <2>1, <2>2 DEF Receives, RecvHeartbeat, latches, mail, canVars, TypeOK, Events
  <2>3. CASE DriveStep
    <3>1. drive'.requested = drive.requested
      BY <2>3, DriveStepTold
    <3>2. UNCHANGED <<param, latches, mail, evt, status, pc, sub_msg, srv_req, canVars>>
      BY <2>3 DEF DriveStep, SendHeartbeat, ProcedureEnds, Disarms, Reboots, vars
    <3> QED BY <2>1, <3>1, <3>2 DEF latches, mail, canVars
  <2> QED BY <1>0, <2>2, <2>3
<1> QED BY <1>0, <1>1

\* A step of the node tells the drive only what Asked says.
LEMMA TellsAsked ==
  ASSUME Core, NodeActs
  PROVE  drive'.requested \in {drive.requested, Asked}
<1> USE InputsAssumption
<1> USE DEF Core, TypeOK, Goto, latches, mail, status, canVars, Threads
<1>0. IDLE \in AxisValues
  BY DEF AxisValues
<1>1. CASE CallbackBegins
  BY <1>1 DEF CallbackBegins, SubscriberCallback, DrivestopCallback, ServiceAccept,
     ServiceClearErrors, SetEnabledCheck, SetDisabled
<1>2. CASE SubContinues
  BY <1>2 DEF SubContinues, SubscriberStore, RequestIdleStore, RequestIdleSet
<1>3. CASE SrvContinues
  BY <1>3 DEF SrvContinues, RequestIdleStore, RequestIdleSet, ServiceStore, ServiceSet,
     ServiceBeginWait, ServiceReturn, SetEnabledStore
<1>4. CASE CanServes
  <2>1. CASE RequestStateSend
    BY <2>1, StateRequestSent DEF RequestStateSend, Asked
  <2>2. CASE RequestClearErrors
    BY <2>2, ClearErrorsSent DEF RequestClearErrors
  <2>3. CASE CtrlSend
    BY <2>3, SetpointSent DEF CtrlSend
  <2> QED BY <1>4, <2>1, <2>2, <2>3 DEF CanServes, LoopCheck, EpollWait, OnTrigger, OnSocket,
     RecvIgnored, RecvDrained, RequestStateRead, CtrlLoadEnabled, CtrlLoadDrivestop, CtrlCopy
<1>5. CASE MainStep
  <2>1. CASE NodeInit
    BY <1>0, <2>1, StateRequestSent DEF NodeInit, Asked, Phases
  <2>2. CASE JoinAndDeinit
    BY <1>0, <2>2, AxisStateSent DEF JoinAndDeinit, Asked
  <2> QED BY <1>5, <2>1, <2>2 DEF MainStep, NodeInitFails, SpinReturns, Ended, vars
<1>6. CASE FrameArrives
  BY <1>6 DEF FrameArrives
<1>9. CASE EpollInterrupted
  BY <1>9 DEF EpollInterrupted
<1> QED BY <1>1, <1>2, <1>3, <1>4, <1>5, <1>6, <1>9 DEF NodeActs

\* What the axis does of it: nothing else than obey, or refuse.
LEMMA IdleObeyedStep ==
  ASSUME LatchIInv, SysNext
  PROVE  IdleIsObeyed'
<1> USE DEF LatchIInv, IdleIsObeyed
<1>1. CASE NodeStep
  <2>1. NodeActs /\ Follows
    BY <1>1 DEF NodeStep, Serves, NodeActs
  <2>2. CASE drive'.requested # Asked
    BY <2>1, <2>2, TellsAsked DEF Follows
  <2>3. CASE drive'.requested = Asked /\ Asked = IDLE
    <3>1. axis' \in Obeyed(Asked) \/ (axis' = axis /\ drive.requested = Asked)
      BY <2>1, <2>3 DEF Follows
    <3>2. Obeyed(Asked) = {Resting}
      BY <2>3 DEF Obeyed, IDLE, NoValue, UNDEFINED
    <3>3. axis' = Resting \/ (axis' = axis /\ drive.requested = IDLE)
      BY <2>3, <3>1, <3>2
    <3> QED BY <3>3 DEF Resting, Report
  <2>4. CASE drive'.requested # IDLE
    BY <2>4
  <2> QED BY <2>2, <2>3, <2>4
<1>2. CASE Receives
  BY <1>2 DEF Receives, RecvHeartbeat
<1>3. CASE DriveStep
  <2>1. drive'.requested = drive.requested
    BY <1>3, DriveStepTold DEF Core
  <2>2. axis' = axis \/ axis'.axis_state = IDLE
    BY <1>3 DEF DriveStep, SendHeartbeat, ProcedureEnds, Disarms, Reboots, Resting, Failed, Report
  <2> QED BY <2>1, <2>2
<1> QED BY <1>1, <1>2, <1>3 DEF SysNext

LEMMA LatchInvariance == SysSpec => []LatchIInv
<1>1. SysInit => LatchIInv
  <2> SUFFICES ASSUME SysInit PROVE LatchIInv
    OBVIOUS
  <2>1. Core
    BY InitIInv DEF SysInit, IInv
  <2>2. DriveTypeOK
    BY SysInitInv DEF SysIInv
  <2>3. drive.requested = NoValue
    BY DEF SysInit, Init
  <2> QED BY <2>1, <2>2, <2>3 DEF LatchIInv, IdleIsObeyed, IDLE, NoValue
<1>2. LatchIInv /\ [SysNext]_sysVars => LatchIInv'
  <2> SUFFICES ASSUME LatchIInv, [SysNext]_sysVars PROVE LatchIInv'
    OBVIOUS
  <2>1. CASE SysNext
    <3>1. NodeActs \/ Receives \/ DriveStep
      BY <2>1 DEF SysNext, NodeStep, Serves, NodeActs
    <3>2. TypeOK
      BY DEF LatchIInv, Core
    <3> QED BY <2>1, <3>1, <3>2, CoreKept, DriveTypeStep, IdleObeyedStep DEF LatchIInv
  <2>2. CASE UNCHANGED sysVars
    <3>1. UNCHANGED vars /\ UNCHANGED <<axis, rx, seen, forgot>>
      BY <2>2 DEF sysVars, driveVars
    <3>2. Core'
      BY <3>1, EachStep DEF LatchIInv
    <3> QED BY <3>1, <3>2 DEF LatchIInv, DriveTypeOK, IdleIsObeyed, vars
  <2> QED BY <2>1, <2>2
<1> QED BY <1>1, <1>2, PTL DEF SysSpec

\* The node's promises hold with a drive that disarms, reboots and runs
\* procedures, and whose heartbeats are late: none of them was an artefact of
\* the passive drive.
THEOREM NodeTheoremsInSystem ==
  SysSpec => [](/\ DisableSticks /\ LateSetpointIsFollowed /\ MailboxesFilled
                /\ NewestStateDelivered /\ ShutdownLeavesIdle)
<1>1. LatchIInv => /\ DisableSticks /\ LateSetpointIsFollowed /\ MailboxesFilled
                   /\ NewestStateDelivered /\ ShutdownLeavesIdle
  BY DEF LatchIInv, Core, Disabled, Filled, Handoff
<1> QED BY <1>1, LatchInvariance, PTL

\* A disabled drive, if it was told anything and nothing was lost, is in IDLE.
THEOREM DisabledIsIdleTheorem == SysSpec => []DisabledIsIdle
<1>1. LatchIInv => DisabledIsIdle
  BY DEF LatchIInv, Core, Disabled, DisableSticks, DisabledIsIdle, IdleIsObeyed, Motion
<1> QED BY <1>1, LatchInvariance, PTL

\* With axis_idle_on_shutdown the axis is in IDLE when the process has ended,
\* and stays there.
THEOREM ShutdownIsIdleTheorem ==
  SysSpec => [](~TxMayFail /\ pc["main"] = "down" /\ param.idle_on_shutdown
                => axis.axis_state = IDLE)
<1>1. LatchIInv => (~TxMayFail /\ pc["main"] = "down" /\ param.idle_on_shutdown
                     => axis.axis_state = IDLE)
  BY DEF LatchIInv, Core, ShutdownLeavesIdle, IdleIsObeyed
<1> QED BY <1>1, LatchInvariance, PTL

StillKept ==
  /\ Stopped'
  /\ axis.axis_state = IDLE => axis'.axis_state = IDLE
  /\ drive'.setpoint \in {drive.setpoint, NoMessage}

LEMMA StillStep ==
  ASSUME LatchIInv, SysNext, Stopped, drivestop_active'
  PROVE  StillKept
<1> USE DEF LatchIInv, Core
<1>1. CASE NodeStep
  <2>1. NodeActs /\ Follows
    BY <1>1 DEF NodeStep, Serves, NodeActs
  <2>2. Stopped' /\ drive'.setpoint = drive.setpoint
    <3>1. Next
      BY <2>1 DEF NodeActs, Next, CanStep
    <3> QED BY <3>1, StopHoldsStep
  <2>3. Asked \in {NoValue, IDLE}
    BY DEF Asked, Stopped, Motion
  <2>4. axis' \in {axis, Resting}
    BY <2>1, <2>3 DEF Follows, Obeyed, IDLE, NoValue, UNDEFINED
  <2> QED BY <2>2, <2>4 DEF StillKept, Resting, Report
<1>2. CASE Receives
  BY <1>2 DEF Receives, RecvHeartbeat, StillKept, Stopped, Motion, latches, mail, canVars
<1>3. CASE DriveStep
  <2>1. drive'.requested = drive.requested
    BY <1>3, DriveStepTold
  <2>2. UNCHANGED <<latches, mail, pc, srv_req, canVars>>
    BY <1>3 DEF DriveStep, SendHeartbeat, ProcedureEnds, Disarms, Reboots, vars
  <2>3. Stopped'
    BY <2>1, <2>2 DEF Stopped, Motion, latches, mail, canVars
  <2>4. axis' = axis \/ axis'.axis_state = IDLE
    BY <1>3 DEF DriveStep, SendHeartbeat, ProcedureEnds, Disarms, Reboots, Resting, Failed, Report
  <2>5. drive'.setpoint \in {drive.setpoint, NoMessage}
    BY <1>3 DEF DriveStep, SendHeartbeat, ProcedureEnds, Disarms, Reboots, vars, TypeOK, DriveStates
  <2> QED BY <2>3, <2>4, <2>5 DEF StillKept
<1> QED BY <1>1, <1>2, <1>3 DEF SysNext

\* A stop in effect keeps the axis in IDLE and setpoints away until
\* /drivestop=false, with frames lost, faults and reboots.
THEOREM StopKeepsStillTheorem == SysSpec => StopKeepsStill
<1>1. LatchIInv /\ [SysNext]_sysVars =>
        [Stopped /\ drivestop_active' =>
           /\ Stopped'
           /\ axis.axis_state = IDLE => axis'.axis_state = IDLE
           /\ drive'.setpoint \in {drive.setpoint, NoMessage}]_sysVars
  BY StillStep DEF StillKept
<1> QED BY <1>1, LatchInvariance, PTL DEF SysSpec, StopKeepsStill

\* A stop is not overtaken in the system either, and the axis follows.
ComesThrough ==
  (StopUnderWay \/ (~drivestop_active /\ ~PastCheck)) /\ drivestop_active'
    => StopUnderWay' /\ (CaughtUp' => axis'.axis_state = IDLE)

LEMMA ComesThroughStep ==
  ASSUME LatchIInv, Told, [SysNext]_sysVars
  PROVE  Told' /\ (IdleIsObeyed' => ComesThrough)
<1> USE DEF LatchIInv
<1>1. CASE NodeStep \/ UNCHANGED sysVars
  <2>1. [Next]_vars
    BY <1>1 DEF NodeStep, Serves, Next, CanStep, sysVars
  <2>2. Told'
    BY <2>1, ToldStep
  <2> QED BY <2>1, <2>2, UnderWayStep DEF Told, ComesThrough, IdleIsObeyed
<1>2. CASE Receives \/ DriveStep
  <2>1. drive'.requested = drive.requested
    BY <1>2, DriveStepTold DEF Core, Receives, RecvHeartbeat
  <2>2. /\ UNCHANGED <<latches, mail, pc, srv_req>>
        /\ evt'["srv"] = evt["srv"]
    BY <1>2 DEF Receives, RecvHeartbeat, DriveStep, SendHeartbeat, ProcedureEnds, Disarms,
       Reboots, vars, Core, TypeOK, Events
  <2>3. StopUnderWay' = StopUnderWay /\ CaughtUp' = CaughtUp /\ drivestop_active' = drivestop_active
    BY <2>2 DEF StopUnderWay, PastCheck, Motion, CaughtUp, StateHandoffDone, latches, mail
  <2> QED BY <2>1, <2>3 DEF Told, ComesThrough, IdleIsObeyed
<1> QED BY <1>1, <1>2 DEF SysNext

\* Every stop that no request overtakes brings the axis to IDLE, and keeps it
\* there, by the time the CAN thread has caught up, whatever the drive does.
THEOREM StopReachesAxisTheorem == SysSpec => [][ComesThrough]_sysVars
<1>1. SysInit => Told
  BY DEF SysInit, Init, Told, StopUnderWay
<1>2. LatchIInv /\ Told /\ [SysNext]_sysVars => Told' /\ (IdleIsObeyed' => ComesThrough)
  BY ComesThroughStep
<1>3. LatchIInv => IdleIsObeyed
  BY DEF LatchIInv
<1> QED BY <1>1, <1>2, <1>3, LatchInvariance, PTL DEF SysSpec

-----------------------------------------------------------------------------
(* The node's loop implements Signal in the system as it does alone.       *)

\* A heartbeat read and a step of the drive are not seen by the loop.
LEMMA SignalsKept ==
  ASSUME Core, Batched, [SysNext]_sysVars
  PROVE  Batched' /\ [Signals!Next]_Signals!vars
<1>1. CASE NodeStep \/ UNCHANGED sysVars
  <2>1. [Next]_vars
    BY <1>1 DEF NodeStep, Serves, Next, CanStep, sysVars
  <2> QED BY <2>1, BatchedStep, SignalsStep
<1>2. CASE Receives \/ DriveStep
  <2>1. /\ pc' = pc /\ ready' = ready
        /\ \A e \in EpollEvents : evt'[e] = evt[e]
    BY <1>2 DEF Receives, RecvHeartbeat, DriveStep, SendHeartbeat, ProcedureEnds, Disarms,
       Reboots, vars, canVars, EpollEvents, Core, TypeOK, Events
  <2>2. Batched'
    BY <2>1 DEF Batched, EpollEvents
  <2> QED BY <2>1, <2>2, Unseen
<1> QED BY <1>1, <1>2 DEF SysNext

\* Callbacks run only for events that were set, one at a time, none after the
\* loop returned, also while heartbeats queue up and the drive acts.
THEOREM SystemImplementsSignal == SysSpec => Signals!Spec
<1>1. SysInit => Batched /\ Signals!Init
  BY DEF SysInit, Init, Batched, Events, Threads, EpollEvents, Signals!Init, Opened,
     Signalled, Handling
<1>2. LatchIInv /\ Batched /\ [SysNext]_sysVars => Batched' /\ [Signals!Next]_Signals!vars
  BY SignalsKept DEF LatchIInv
<1> QED BY <1>1, <1>2, LatchInvariance, PTL DEF SysSpec, Signals!Spec
=============================================================================
