----------------------------- MODULE MCFeedback -----------------------------
(***************************************************************************)
(* Small instances of Feedback for TLC.                                    *)
(***************************************************************************)
EXTENDS Feedback

\* The drive's rates are set message by message (config/*_motor_config.py
\* turns all on): every choice for controller_status, and with a few of them
\* all or one of odrive_status.
AnyFirmware ==
  SUBSET ControllerKinds
    \cup {Kinds, {"heartbeat", "encoder"} \cup ODriveKinds, {"encoder", "torques", "bus"}}

\* Encoder estimates with any of the optional messages.
EncoderFirmware == {{"heartbeat", "encoder"} \cup o : o \in SUBSET {"iq", "torques"}}
=============================================================================
