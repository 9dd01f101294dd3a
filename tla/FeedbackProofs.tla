--------------------------- MODULE FeedbackProofs ---------------------------
(***************************************************************************)
(* Proofs about Feedback, for every configuration of the drive.            *)
(***************************************************************************)
EXTENDS Feedback, TLAPS

\* The flags of a record are the messages that came since it was last
\* published, and only cyclic messages come.
FlagsAreNews ==
  /\ ctrl_pub_flag = unpublished \cap ControllerKinds
  /\ odrv_pub_flag = unpublished \cap ODriveKinds
  /\ ctrl_pub_flag \subseteq cyclic

\* Outside of the tests nothing is left that should have been published.
NothingOverdue ==
  /\ pc["can"] # "test_ctrl" => ~Publishable(ctrl_pub_flag)
  /\ pc["can"] \in {"idle", "lock", "fill"} => odrv_pub_flag # ODriveKinds

\* The fields of a pair differ only while the second is still to be stored; a
\* copy under way is of a pair that nobody changes.
PairsWhole ==
  /\ IF pc["can"] = "fill" /\ frame.kind = "heartbeat"
     THEN ctrl_stat.active_errors = frame.value
     ELSE ctrl_stat.active_errors = ctrl_stat.axis_state
  /\ IF pc["can"] = "fill" /\ frame.kind = "error"
     THEN odrv_stat.active_errors = frame.value
     ELSE odrv_stat.active_errors = odrv_stat.disarm_reason
  /\ CtrlLockedBySrv => reply.first = ctrl_stat.active_errors /\ ~CtrlLockedByCan
  /\ OdrvLockedBySrv => reply.first = odrv_stat.active_errors /\ ~OdrvLockedByCan
  /\ AnswersNotTorn

IInv == TypeOK /\ FlagsAreNews /\ NothingOverdue /\ PairsWhole

-----------------------------------------------------------------------------
(* Every variable keeps its type in every execution.                       *)
THEOREM TypeCorrect == Spec => []TypeOK
<1> USE DEF TypeOK, Goto, records, flags, Fields, Kinds, ControllerKinds, ODriveKinds
<1>1. Init => TypeOK
  BY DEF Init
<1>2. TypeOK /\ [Next]_vars => TypeOK'
  <2> SUFFICES ASSUME TypeOK, [Next]_vars PROVE TypeOK'
    OBVIOUS
  <2>1. ASSUME NEW k \in cyclic, NEW v \in Values, RecvFrame(k, v) PROVE TypeOK'
    BY <2>1, FeedbackAssumption DEF RecvFrame
  <2>2. CASE RecvNoFeedback
    BY <2>2 DEF RecvNoFeedback
  <2>3. CASE FillFirst
    BY <2>3 DEF FillFirst
  <2>4. CASE FillSecond
    BY <2>4, FeedbackAssumption DEF FillSecond
  <2>5. CASE SkipController
    BY <2>5 DEF SkipController
  <2>6. CASE PublishController
    BY <2>6 DEF PublishController
  <2>7. CASE SkipODrive
    BY <2>7 DEF SkipODrive
  <2>8. CASE PublishODrive
    BY <2>8 DEF PublishODrive
  <2>9. CASE GetErrorsFirst
    BY <2>9 DEF GetErrorsFirst
  <2>10. CASE GetErrorsSecond
    BY <2>10 DEF GetErrorsSecond
  <2>11. CASE FillResponseFirst
    BY <2>11 DEF FillResponseFirst
  <2>12. CASE FillResponseSecond
    BY <2>12 DEF FillResponseSecond
  <2>13. CASE UNCHANGED vars
    BY <2>13 DEF vars
  <2> QED
    BY <2>1, <2>2, <2>3, <2>4, <2>5, <2>6, <2>7, <2>8, <2>9, <2>10, <2>11, <2>12, <2>13
       DEF Next, Recv, RecvContinues, SrvContinues
<1> QED
  BY <1>1, <1>2, PTL DEF Spec

-----------------------------------------------------------------------------
(* The strengthened invariant.                                             *)
LEMMA IInvInit == Init => IInv
  BY FeedbackAssumption
     DEF Init, IInv, TypeOK, FlagsAreNews, NothingOverdue, PairsWhole, AnswersNotTorn, Publishable,
         CtrlLockedByCan, OdrvLockedByCan, CtrlLockedBySrv, OdrvLockedBySrv, Fields,
         Kinds, ControllerKinds, ODriveKinds

LEMMA FlagsStep == TypeOK /\ FlagsAreNews /\ [Next]_vars => FlagsAreNews'
<1> SUFFICES ASSUME TypeOK, FlagsAreNews, [Next]_vars PROVE FlagsAreNews'
  OBVIOUS
<1> USE DEF FlagsAreNews, ControllerKinds, ODriveKinds, flags
<1>1. ASSUME UNCHANGED <<cyclic, flags, unpublished>> PROVE FlagsAreNews'
  BY <1>1
<1>2. CASE FillSecond
  <2>1. frame.kind \in cyclic
    BY <1>2 DEF FillSecond, Goto, TypeOK
  <2> QED
    BY <1>2, <2>1 DEF FillSecond
<1>3. CASE PublishController
  BY <1>3 DEF PublishController
<1>4. CASE PublishODrive
  BY <1>4 DEF PublishODrive
<1> QED
  BY <1>1, <1>2, <1>3, <1>4
     DEF Next, Recv, RecvContinues, SrvContinues, RecvFrame, RecvNoFeedback, FillFirst,
         SkipController, SkipODrive, GetErrorsFirst, GetErrorsSecond, FillResponseFirst,
         FillResponseSecond, vars

LEMMA OverdueStep == TypeOK /\ NothingOverdue /\ [Next]_vars => NothingOverdue'
<1> SUFFICES ASSUME TypeOK, NothingOverdue, [Next]_vars PROVE NothingOverdue'
  OBVIOUS
<1> USE DEF NothingOverdue, TypeOK, Publishable, ControllerKinds, ODriveKinds, flags, Goto
<1>1. ASSUME NEW k \in cyclic, NEW v \in Values, RecvFrame(k, v) PROVE NothingOverdue'
  BY <1>1 DEF RecvFrame
<1>2. CASE RecvNoFeedback
  BY <1>2 DEF RecvNoFeedback
<1>3. CASE FillFirst
  BY <1>3 DEF FillFirst
<1>4. CASE FillSecond
  BY <1>4 DEF FillSecond
<1>5. CASE SkipController
  BY <1>5 DEF SkipController
<1>6. CASE PublishController
  BY <1>6 DEF PublishController
<1>7. CASE SkipODrive
  BY <1>7 DEF SkipODrive
<1>8. CASE PublishODrive
  BY <1>8 DEF PublishODrive
<1>9. CASE GetErrorsFirst \/ GetErrorsSecond \/ FillResponseFirst \/ FillResponseSecond
  BY <1>9 DEF GetErrorsFirst, GetErrorsSecond, FillResponseFirst, FillResponseSecond
<1>10. CASE UNCHANGED vars
  BY <1>10 DEF vars
<1> QED
  BY <1>1, <1>2, <1>3, <1>4, <1>5, <1>6, <1>7, <1>8, <1>9, <1>10
     DEF Next, Recv, RecvContinues, SrvContinues

LEMMA PairsStep == TypeOK /\ PairsWhole /\ [Next]_vars => PairsWhole'
<1> SUFFICES ASSUME TypeOK, PairsWhole, [Next]_vars PROVE PairsWhole'
  OBVIOUS
<1> USE DEF PairsWhole, AnswersNotTorn, CtrlLockedByCan, OdrvLockedByCan, CtrlLockedBySrv,
            OdrvLockedBySrv, TypeOK, Fields, Kinds, ControllerKinds, ODriveKinds, records, Goto
<1>1. ASSUME NEW k \in cyclic, NEW v \in Values, RecvFrame(k, v) PROVE PairsWhole'
  BY <1>1 DEF RecvFrame
<1>2. CASE RecvNoFeedback
  BY <1>2 DEF RecvNoFeedback
<1>3. CASE FillFirst
  BY <1>3 DEF FillFirst
<1>4. CASE FillSecond
  BY <1>4 DEF FillSecond
<1>5. CASE SkipController
  BY <1>5 DEF SkipController
<1>6. CASE PublishController
  BY <1>6 DEF PublishController
<1>7. CASE SkipODrive
  BY <1>7 DEF SkipODrive
<1>8. CASE PublishODrive
  BY <1>8 DEF PublishODrive
<1>9. CASE GetErrorsFirst
  BY <1>9 DEF GetErrorsFirst
<1>10. CASE GetErrorsSecond
  BY <1>10 DEF GetErrorsSecond
<1>11. CASE FillResponseFirst
  BY <1>11 DEF FillResponseFirst
<1>12. CASE FillResponseSecond
  BY <1>12 DEF FillResponseSecond
<1>13. CASE UNCHANGED vars
  BY <1>13 DEF vars
<1> QED
  BY <1>1, <1>2, <1>3, <1>4, <1>5, <1>6, <1>7, <1>8, <1>9, <1>10, <1>11, <1>12, <1>13
     DEF Next, Recv, RecvContinues, SrvContinues

THEOREM Invariance == Spec => []IInv
<1>1. IInv /\ TypeOK' /\ [Next]_vars => IInv'
  BY FlagsStep, OverdueStep, PairsStep DEF IInv
<1> QED
  BY <1>1, IInvInit, TypeCorrect, PTL DEF Spec

-----------------------------------------------------------------------------
(* A service never reports fields of two different messages.               *)
THEOREM AnswersNotTornTheorem == Spec => []AnswersNotTorn
<1>1. IInv => AnswersNotTorn
  BY DEF IInv, PairsWhole
<1> QED
  BY <1>1, Invariance, PTL

(* An encoder estimate waits only for a full set that has been started.    *)
THEOREM EstimateTheorem == Spec => []EstimateWaitsForFullSet
<1>1. IInv => EstimateWaitsForFullSet
  <2> SUFFICES ASSUME IInv, pc["can"] = "idle", "encoder" \in unpublished
               PROVE  /\ ctrl_pub_flag \cap {"iq", "torques"} # {}
                      /\ ctrl_pub_flag # ControllerKinds
    BY DEF EstimateWaitsForFullSet
  <2>1. "encoder" \in ctrl_pub_flag /\ ctrl_pub_flag \subseteq ControllerKinds
    BY DEF IInv, FlagsAreNews, ControllerKinds
  <2>2. ~Publishable(ctrl_pub_flag)
    BY DEF IInv, NothingOverdue
  <2>3. ctrl_pub_flag # ControllerKinds
    BY <2>2 DEF Publishable
  <2>4. ASSUME ctrl_pub_flag \cap {"iq", "torques"} = {} PROVE FALSE
    <3>1. ctrl_pub_flag = {"encoder"} \/ ctrl_pub_flag = {"heartbeat", "encoder"}
      BY <2>1, <2>4 DEF ControllerKinds
    <3> QED
      BY <2>2, <3>1 DEF Publishable
  <2> QED
    BY <2>3, <2>4
<1> QED
  BY <1>1, Invariance, PTL

(* No status message repeats what the last one said.                       *)
THEOREM StatusIsNewsTheorem == Spec => StatusIsNews
<1>1. IInv => (PublishController => "encoder" \in unpublished)
  BY DEF IInv, FlagsAreNews, PublishController, Publishable, ControllerKinds
<1>2. IInv => (PublishODrive => ODriveKinds \subseteq unpublished)
  BY DEF IInv, FlagsAreNews, PublishODrive
<1> QED
  BY <1>1, <1>2, Invariance, PTL DEF StatusIsNews

\* With Iq messages but no torques messages, controller_status is not
\* published again once the first Iq message has come.
StuckWithoutTorques ==
  [][ "torques" \notin cyclic /\ "iq" \in ctrl_pub_flag
        => ~PublishController /\ "iq" \in ctrl_pub_flag' ]_vars

(* What the drive must not be configured to do: with Iq and without        *)
(* torques controller_status stops for good.                               *)
THEOREM StuckTheorem == Spec => StuckWithoutTorques
<1>1. IInv /\ [Next]_vars =>
        ("torques" \notin cyclic /\ "iq" \in ctrl_pub_flag
           => ~PublishController /\ "iq" \in ctrl_pub_flag')
  <2> SUFFICES ASSUME IInv, [Next]_vars, "torques" \notin cyclic, "iq" \in ctrl_pub_flag
               PROVE ~PublishController /\ "iq" \in ctrl_pub_flag'
    OBVIOUS
  <2>1. ~Publishable(ctrl_pub_flag)
    <3>1. "torques" \notin ctrl_pub_flag
      BY DEF IInv, FlagsAreNews
    <3> QED
      BY <3>1 DEF Publishable, ControllerKinds
  <2>2. ~PublishController
    BY <2>1 DEF PublishController
  <2>3. ctrl_pub_flag \subseteq ctrl_pub_flag'
    BY <2>2 DEF Next, Recv, RecvContinues, SrvContinues, RecvFrame, RecvNoFeedback, FillFirst,
         FillSecond, SkipController, SkipODrive, PublishODrive, GetErrorsFirst, GetErrorsSecond,
         FillResponseFirst, FillResponseSecond, vars, flags
  <2> QED
    BY <2>2, <2>3
<1> QED
  BY <1>1, Invariance, PTL DEF StuckWithoutTorques, Spec
=============================================================================
