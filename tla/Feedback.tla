------------------------------ MODULE Feedback ------------------------------
(***************************************************************************)
(* The feedback path of custom_odrive_node: recv_callback, on the CAN      *)
(* thread, collects cyclic messages into two status records and publishes  *)
(* a record when its flags say that enough has come; service callbacks     *)
(* read the records meanwhile.                                             *)
(*                                                                         *)
(* A message that fills two fields fills them one after the other, and a   *)
(* reader reads them one after the other: what keeps them together is the  *)
(* record's mutex.  Of the payloads only the field pairs of Heartbeat and  *)
(* Get_Error are kept, which the services report; the sign, the units and  *)
(* the enabled field of controller_status, set on the way out, are not.    *)
(*                                                                         *)
(* An operator whose name starts with "Bad" is the next definition with a  *)
(* bug in it; it stands in for that definition when a property is tested.  *)
(***************************************************************************)

CONSTANTS
  Firmwares,  \* sets of cyclic messages a drive may be configured to send
  Values      \* contents of a Heartbeat or Get_Error message

ControllerKinds == {"heartbeat", "encoder", "iq", "torques"}  \* ctrl_pub_flag_
ODriveKinds     == {"error", "temperature", "bus"}            \* odrv_pub_flag_
Kinds           == ControllerKinds \cup ODriveKinds

NoValue == "none"     \* a field of a default-constructed record

ASSUME FeedbackAssumption ==
  /\ Firmwares \subseteq SUBSET Kinds
  /\ NoValue \notin Values

VARIABLES
  cyclic,         \* external: the messages the drive sends
  frame,          \* the frame recv_callback works on
  ctrl_stat,      \* the heartbeat's fields of ctrl_stat_
  odrv_stat,      \* the Get_Error fields of odrv_stat_
  ctrl_pub_flag,  \* ctrl_pub_flag_, the set of its bits
  odrv_pub_flag,  \* odrv_pub_flag_, the set of its bits
  pc,             \* where the CAN thread and the service group are
  reply,          \* what the service callback has copied
  unpublished     \* history: messages that came after the last publication
                  \* of their record

records == <<ctrl_stat, odrv_stat>>
flags   == <<ctrl_pub_flag, odrv_pub_flag>>
vars    == <<cyclic, frame, records, flags, pc, reply, unpublished>>

Goto(t, from, to) == pc[t] = from /\ pc' = [pc EXCEPT ![t] = to]

\* Who has locked ctrl_stat_mutex_ and odrv_stat_mutex_.
CtrlLockedByCan == pc["can"] = "fill" /\ frame.kind \in ControllerKinds
OdrvLockedByCan == pc["can"] = "fill" /\ frame.kind \in ODriveKinds
CtrlLockedBySrv == pc["srv"] = "copy_ctrl"
OdrvLockedBySrv == pc["srv"] = "copy_odrv"

-----------------------------------------------------------------------------
(* recv_callback.                                                          *)

\* A frame of this node, of the expected length, that carries feedback.  A
\* frame of another node changes nothing and is no action.
RecvFrame(k, v) ==
  /\ Goto("can", "idle", "lock")
  /\ frame' = [kind |-> k, value |-> v]
  /\ UNCHANGED <<cyclic, records, flags, reply, unpublished>>

\* A frame of this node that carries none: wrong length, a host command, an
\* unused id.  Only the tests at the end run.
RecvNoFeedback ==
  /\ Goto("can", "idle", "test_ctrl")
  /\ UNCHANGED <<cyclic, frame, records, flags, reply, unpublished>>

\* The record's mutex is taken, the first field stored.
FillFirst ==
  /\ Goto("can", "lock", "fill")
  /\ frame.kind \in ControllerKinds => ~CtrlLockedBySrv
  /\ frame.kind \in ODriveKinds => ~OdrvLockedBySrv
  /\ ctrl_stat' = IF frame.kind = "heartbeat"
                  THEN [ctrl_stat EXCEPT !.active_errors = frame.value] ELSE ctrl_stat
  /\ odrv_stat' = IF frame.kind = "error"
                  THEN [odrv_stat EXCEPT !.active_errors = frame.value] ELSE odrv_stat
  /\ UNCHANGED <<cyclic, frame, flags, reply, unpublished>>

\* Bus voltage sets its bit, 0b100, in the other record's flags.
BadFillBus ==
  /\ Goto("can", "fill", "test_ctrl")
  /\ ctrl_stat' = IF frame.kind = "heartbeat"
                  THEN [ctrl_stat EXCEPT !.axis_state = frame.value] ELSE ctrl_stat
  /\ odrv_stat' = IF frame.kind = "error"
                  THEN [odrv_stat EXCEPT !.disarm_reason = frame.value] ELSE odrv_stat
  /\ ctrl_pub_flag' = ctrl_pub_flag \cup
       (IF frame.kind = "bus" THEN {"iq"} ELSE {frame.kind} \cap ControllerKinds)
  /\ odrv_pub_flag' = odrv_pub_flag \cup ({frame.kind} \cap {"error", "temperature"})
  /\ unpublished' = unpublished \cup {frame.kind}
  /\ UNCHANGED <<cyclic, frame, reply>>

\* The second field is stored, the flag set, the mutex released.
FillSecond ==
  /\ Goto("can", "fill", "test_ctrl")
  /\ ctrl_stat' = IF frame.kind = "heartbeat"
                  THEN [ctrl_stat EXCEPT !.axis_state = frame.value] ELSE ctrl_stat
  /\ odrv_stat' = IF frame.kind = "error"
                  THEN [odrv_stat EXCEPT !.disarm_reason = frame.value] ELSE odrv_stat
  /\ ctrl_pub_flag' = ctrl_pub_flag \cup ({frame.kind} \cap ControllerKinds)
  /\ odrv_pub_flag' = odrv_pub_flag \cup ({frame.kind} \cap ODriveKinds)
  /\ unpublished' = unpublished \cup {frame.kind}
  /\ UNCHANGED <<cyclic, frame, reply>>

\* Only the full set is published.
BadPublishable(bits) == bits = ControllerKinds

\* 0b1111, 0b0010 and 0b0011.
Publishable(bits) ==
  bits \in {ControllerKinds, {"encoder"}, {"heartbeat", "encoder"}}

SkipController ==
  /\ ~Publishable(ctrl_pub_flag)
  /\ Goto("can", "test_ctrl", "test_odrv")
  /\ UNCHANGED <<cyclic, frame, records, flags, reply, unpublished>>

\* The flags are not reset.
BadPublishController ==
  /\ Publishable(ctrl_pub_flag) /\ ~CtrlLockedBySrv
  /\ Goto("can", "test_ctrl", "test_odrv")
  /\ unpublished' = unpublished \ ControllerKinds
  /\ UNCHANGED <<cyclic, frame, records, flags, reply>>

\* Under ctrl_stat_mutex_.
PublishController ==
  /\ Publishable(ctrl_pub_flag) /\ ~CtrlLockedBySrv
  /\ Goto("can", "test_ctrl", "test_odrv")
  /\ ctrl_pub_flag' = {}
  /\ unpublished' = unpublished \ ControllerKinds
  /\ UNCHANGED <<cyclic, frame, records, odrv_pub_flag, reply>>

SkipODrive ==
  /\ odrv_pub_flag # ODriveKinds
  /\ Goto("can", "test_odrv", "idle")
  /\ UNCHANGED <<cyclic, frame, records, flags, reply, unpublished>>

\* Without odrv_stat_mutex_: this thread alone writes the record.
PublishODrive ==
  /\ odrv_pub_flag = ODriveKinds
  /\ Goto("can", "test_odrv", "idle")
  /\ odrv_pub_flag' = {}
  /\ unpublished' = unpublished \ ODriveKinds
  /\ UNCHANGED <<cyclic, frame, records, ctrl_pub_flag, reply>>

-----------------------------------------------------------------------------
(* The service group: get_errors copies the Get_Error fields, and          *)
(* request_axis_state's answer the heartbeat's, each under its mutex.      *)

\* The mutex is not taken.
BadGetErrorsFirst ==
  /\ Goto("srv", "idle", "copy_odrv")
  /\ reply' = [first |-> odrv_stat.active_errors, second |-> NoValue]
  /\ UNCHANGED <<cyclic, frame, records, flags, unpublished>>

GetErrorsFirst ==
  /\ Goto("srv", "idle", "copy_odrv")
  /\ ~OdrvLockedByCan
  /\ reply' = [first |-> odrv_stat.active_errors, second |-> NoValue]
  /\ UNCHANGED <<cyclic, frame, records, flags, unpublished>>

GetErrorsSecond ==
  /\ Goto("srv", "copy_odrv", "idle")
  /\ reply' = [reply EXCEPT !.second = odrv_stat.disarm_reason]
  /\ UNCHANGED <<cyclic, frame, records, flags, unpublished>>

FillResponseFirst ==
  /\ Goto("srv", "idle", "copy_ctrl")
  /\ ~CtrlLockedByCan
  /\ reply' = [first |-> ctrl_stat.active_errors, second |-> NoValue]
  /\ UNCHANGED <<cyclic, frame, records, flags, unpublished>>

FillResponseSecond ==
  /\ Goto("srv", "copy_ctrl", "idle")
  /\ reply' = [reply EXCEPT !.second = ctrl_stat.axis_state]
  /\ UNCHANGED <<cyclic, frame, records, flags, unpublished>>

-----------------------------------------------------------------------------
Init ==
  /\ cyclic \in Firmwares
  /\ frame = [kind |-> NoValue, value |-> NoValue]
  /\ ctrl_stat = [active_errors |-> NoValue, axis_state |-> NoValue]
  /\ odrv_stat = [active_errors |-> NoValue, disarm_reason |-> NoValue]
  /\ ctrl_pub_flag = {}
  /\ odrv_pub_flag = {}
  /\ pc = [can |-> "idle", srv |-> "idle"]
  /\ reply = [first |-> NoValue, second |-> NoValue]
  /\ unpublished = {}

Recv(k) == \E v \in Values : RecvFrame(k, v)

RecvContinues ==
  \/ FillFirst
  \/ FillSecond
  \/ SkipController
  \/ PublishController
  \/ SkipODrive
  \/ PublishODrive

SrvContinues == GetErrorsSecond \/ FillResponseSecond

Next ==
  \/ \E k \in cyclic : Recv(k)
  \/ RecvNoFeedback
  \/ RecvContinues
  \/ GetErrorsFirst
  \/ FillResponseFirst
  \/ SrvContinues

Spec == Init /\ [][Next]_vars

\* The threads run and the bus is fair: a cyclic message comes again and
\* again.  FillFirst and PublishController wait for a mutex that a service
\* callback holds for a few loads but may take again and again.
Fairness ==
  /\ \A k \in Kinds : SF_vars(k \in cyclic /\ Recv(k))
  /\ WF_vars(RecvContinues)
  /\ SF_vars(FillFirst)
  /\ SF_vars(PublishController)
  /\ WF_vars(SrvContinues)

FairSpec == Spec /\ Fairness

-----------------------------------------------------------------------------
(* Properties.                                                             *)

Fields == Values \cup {NoValue}

\* Every variable has its type.
TypeOK ==
  /\ cyclic \in Firmwares
  /\ frame \in [kind : Kinds \cup {NoValue}, value : Fields]
  /\ pc["can"] \in {"lock", "fill"} => frame.kind \in cyclic /\ frame.value \in Values
  /\ ctrl_stat \in [active_errors : Fields, axis_state : Fields]
  /\ odrv_stat \in [active_errors : Fields, disarm_reason : Fields]
  /\ ctrl_pub_flag \subseteq ControllerKinds
  /\ odrv_pub_flag \subseteq ODriveKinds
  /\ pc \in [{"can", "srv"} -> {"idle", "lock", "fill", "test_ctrl", "test_odrv",
                                "copy_ctrl", "copy_odrv"}]
  /\ pc["can"] \notin {"copy_ctrl", "copy_odrv"}
  /\ pc["srv"] \in {"idle", "copy_ctrl", "copy_odrv"}
  /\ reply \in [first : Fields, second : Fields]
  /\ unpublished \subseteq Kinds

\* What a service reports comes from one message: errors and disarm reason
\* of one Get_Error, errors and axis state of one Heartbeat.
AnswersNotTorn == pc["srv"] = "idle" => reply.first = reply.second

\* An encoder estimate is published as soon as it is received, unless an Iq
\* or torques message has started a full set that is not complete.
EstimateWaitsForFullSet ==
  pc["can"] = "idle" /\ "encoder" \in unpublished
    => ctrl_pub_flag \cap {"iq", "torques"} # {} /\ ctrl_pub_flag # ControllerKinds

\* A controller_status never repeats an encoder estimate, and an
\* odrive_status never repeats any of its three messages.
StatusIsNews ==
  [][ /\ PublishController => "encoder" \in unpublished
      /\ PublishODrive => ODriveKinds \subseteq unpublished ]_vars

PublishesAgainAndAgain == []<>(pc["can"] = "test_ctrl" /\ Publishable(ctrl_pub_flag))

\* controller_status keeps coming if the drive sends all four of its
\* messages, or encoder estimates and neither Iq nor torques, in whatever
\* order and at whatever rates they come.
FullOrPlainKeepsComing ==
  "encoder" \in cyclic /\ (ControllerKinds \subseteq cyclic \/ cyclic \cap {"iq", "torques"} = {})
    => PublishesAgainAndAgain

\* Feedback keeps coming while the drive sends encoder estimates.
\* custom_odrive_node.cpp:11 "publish when a useful combination is present
\* [...] so RViz/controllers still get motion feedback even if optional
\* cyclic msgs (Iq, torques) are disabled in firmware."
MotionFeedbackKeepsComing == "encoder" \in cyclic => PublishesAgainAndAgain

\* odrive_status keeps coming if the drive sends its three messages.
ODriveStatusKeepsComing ==
  ODriveKinds \subseteq cyclic
    => []<>(pc["can"] = "test_odrv" /\ odrv_pub_flag = ODriveKinds)
=============================================================================
