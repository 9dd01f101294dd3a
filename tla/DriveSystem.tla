---------------------------- MODULE DriveSystem -----------------------------
(***************************************************************************)
(* The node and its drive: whether an axis state request that is answered  *)
(* "success" was one, whether the mode the node believes the drive to be   *)
(* in is the one it is in, and whether the latches keep the axis in IDLE.  *)
(*                                                                         *)
(* The drive is external: it obeys Set_Axis_State or refuses, runs a       *)
(* procedure to its end, disarms, reboots, and sends heartbeats, which     *)
(* wait on the bus and in the socket's queue until the node reads them.    *)
(***************************************************************************)
EXTENDS CustomODriveNode, Sequences, Naturals

CONSTANTS
  Procedures,  \* axis states that run and end in IDLE, calibrations
  MaxRx        \* bound of the heartbeats that are under way

ASSUME DriveAssumption ==
  /\ MaxRx \in Nat
  /\ IDLE \notin Procedures /\ CLOSED_LOOP \notin Procedures

VARIABLES
  axis,     \* what the drive's next heartbeat says
  rx,       \* heartbeats sent and not yet read
  seen,     \* history: of the call being served, see Seen
  forgot    \* history: the drive lost the mode the node sent last

driveVars == <<axis, rx>>
sysVars   == <<vars, driveVars, seen, forgot>>

Report(s, result) == [axis_state |-> s, procedure_result |-> result]
Resting == Report(IDLE, "SUCCESS")
Failed  == Report(IDLE, "FAILED")

\* A report of what was asked for: of a procedure, that it is over.
Fits(report, s) ==
  report.axis_state = s /\ (s = CLOSED_LOOP \/ report.procedure_result # BUSY)

-----------------------------------------------------------------------------
(* Frames that reach the drive.                                            *)

\* Set_Axis_State: IDLE is always obeyed, a motion may be refused.
Obeyed(s) ==
  CASE s \in {NoValue, UNDEFINED} -> {axis}
    [] s = IDLE -> {Resting}
    [] OTHER    -> {Failed} \cup IF drive'.fault THEN {} ELSE {Report(s, BUSY)}

\* The axis state this step asks the drive for.
Asked ==
  CASE pc["can"] = "state_send" /\ pc'["can"] # "state_send" -> can_state
    [] pc["main"] = "init" /\ pc'["main"] = "spin" /\ param.idle_on_startup -> IDLE
    [] pc["main"] = "joining" /\ pc'["main"] = "down" /\ param.idle_on_shutdown -> IDLE
    [] OTHER -> NoValue

\* The drive obeys if the frame got through; if it was asked for the same
\* before, what it was told last does not show whether it did.
Follows ==
  axis' \in IF drive'.requested # Asked THEN {axis}
            ELSE Obeyed(Asked) \cup IF TxMayFail /\ drive.requested = Asked THEN {axis} ELSE {}

\* A setpoint is being sent, and the mode before it, if that can have
\* reached the drive.
Forgets ==
  forgot' = IF pc["can"] = "ctrl_send" /\ pc'["can"] # "ctrl_send"
            THEN /\ drive'.mode # ModeOf(can_msg)
                 /\ forgot \/ \E d \in SendSetpoint(drive, can_msg) : d.mode = ModeOf(can_msg)
            ELSE forgot

\* Since the call came the drive was as asked for, or it was at a heartbeat
\* that had not been read by then.
Sees ==
  seen' = /\ srv_req' # NoValue
          /\ \/ seen
             \/ Fits(axis', srv_req')
             \/ \E i \in DOMAIN rx' : Fits(rx'[i], srv_req')

-----------------------------------------------------------------------------
(* The drive's own steps.                                                  *)

SendHeartbeat ==
  /\ pc["main"] \in {"spin", "joining"} /\ Len(rx) < MaxRx
  /\ rx' = Append(rx, axis)
  /\ UNCHANGED <<vars, axis, forgot>>

ProcedureEnds ==
  /\ axis.axis_state \in Procedures
  /\ axis' \in {Resting, Failed}
  /\ UNCHANGED <<vars, rx, forgot>>

\* A fault, the watchdog's among them.
Disarms ==
  /\ axis.axis_state # IDLE
  /\ axis' = Failed
  /\ drive' = [drive EXCEPT !.fault = TRUE]
  /\ UNCHANGED <<param, latches, mail, evt, status, pc, sub_msg, srv_req, canVars,
                 rx, forgot>>

\* commission.py's save_configuration, or a power cycle.
Reboots ==
  /\ axis' = Resting
  /\ drive' = [drive EXCEPT !.fault = FALSE, !.mode = NoMode,
                            !.setpoint = NoMessage, !.setpoint_mode = NoMode]
  /\ forgot' = TRUE
  /\ UNCHANGED <<param, latches, mail, evt, status, pc, sub_msg, srv_req, canVars, rx>>

DriveStep == SendHeartbeat \/ ProcedureEnds \/ Disarms \/ Reboots

-----------------------------------------------------------------------------
(* The system.                                                             *)

\* The CAN thread reads the oldest heartbeat.
Receives ==
  /\ rx # <<>>
  /\ RecvHeartbeat(Head(rx))
  /\ rx' = Tail(rx)
  /\ UNCHANGED <<axis, forgot>>

\* A step of the node in which it reads none.
Serves(step) == step /\ Follows /\ Forgets /\ UNCHANGED rx

NodeStep ==
  \/ Serves(CallbackBegins)
  \/ Serves(SubContinues)
  \/ Serves(SrvContinues)
  \/ Serves(CanServes)
  \/ Serves(EpollInterrupted)
  \/ Serves(MainStep)
  \/ Serves(FrameArrives)

SysInit ==
  /\ Init
  /\ axis \in {Resting, Failed, Report(CLOSED_LOOP, BUSY)}
  /\ rx = <<>>
  /\ seen = FALSE /\ forgot = FALSE

SysNext == (NodeStep \/ Receives \/ DriveStep) /\ Sees

SysSpec == SysInit /\ [][SysNext]_sysVars

\* The node's fairness; the drive sends heartbeats, which reach the socket in
\* their order and are read in it.
SysFairness ==
  /\ WF_sysVars(Serves(SubContinues) /\ Sees)
  /\ WF_sysVars(Serves(SrvContinues) /\ pc["srv"] # "waiting" /\ Sees)
  /\ WF_sysVars((Serves(CanServes) \/ Receives) /\ Sees)
  /\ SF_sysVars(Serves(RecvDrained) /\ Sees)
  /\ WF_sysVars(SendHeartbeat /\ Sees)
  /\ WF_sysVars(Serves(FrameArrives) /\ Sees)
  /\ SF_sysVars(Receives /\ Sees)

FairSysSpec == SysSpec /\ SysFairness

-----------------------------------------------------------------------------
(* Properties.                                                             *)

AxisReports == [axis_state : AxisRequests \cup {IDLE, CLOSED_LOOP} \cup Procedures,
                procedure_result : {"SUCCESS", "FAILED", BUSY}]

\* Every variable of the drive has its type.
DriveTypeOK ==
  /\ axis \in AxisReports
  /\ rx \in Seq(AxisReports) /\ Len(rx) <= MaxRx
  /\ seen \in BOOLEAN /\ forgot \in BOOLEAN

\* A call of request_axis_state is answered "success" only if the drive was
\* in the state asked for, with no procedure running but closed loop, since
\* the call came or the oldest heartbeat unread by then was sent: never on
\* the strength of a status the node had before.
SuccessIsTrue == Succeeds => seen

\* The mode the node takes the drive to be in, and does not send again, is
\* the drive's, whatever messages came and went, unless the drive rebooted
\* or the mode's own frame was lost since; sending another mode heals that.
CachedModeIsTrue == forgot \/ mode_sent = drive.mode

\* Once set_enabled(false) has queued its IDLE and the CAN thread has caught
\* up, a drive that was ever told an axis state is in IDLE, and none of the
\* requests, setpoints, faults and reboots that follow takes it out of it
\* until set_enabled(true).
DisabledIsIdle ==
  ~TxMayFail /\ ~enabled /\ pc["srv"] \notin {"store_idle", "set_idle"}
    /\ StateHandoffDone /\ drive.requested # NoValue
  => axis.axis_state = IDLE

\* A stop in effect holds until /drivestop=false, at the drive as in the
\* node: an axis in IDLE stays there, no setpoint comes, whatever is asked
\* for, frames lost, the drive rebooted meanwhile.
StopKeepsStill ==
  [][Stopped /\ drivestop_active' =>
       /\ Stopped'
       /\ axis.axis_state = IDLE => axis'.axis_state = IDLE
       /\ drive'.setpoint \in {drive.setpoint, NoMessage}]_sysVars

\* The drive has reached what the call that waits asked for.
Reached == pc["srv"] = "waiting" /\ Fits(axis, srv_req)

\* A call that waits long enough is confirmed, if the drive reached the state
\* and stays in it, and the CAN thread is there to read its heartbeats.
ReachedIsConfirmed == Reached ~> Confirmed \/ ~Reached \/ NobodySends
=============================================================================
