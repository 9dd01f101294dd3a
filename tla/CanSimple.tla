----------------------------- MODULE CanSimple ------------------------------
(***************************************************************************)
(* The frame layouts of ODrive CAN Simple: those of the generated message  *)
(* classes, and those the node packs and unpacks by hand.                  *)
(***************************************************************************)
EXTENDS CanFrames

Signal(start, length, width) == [start |-> start, length |-> length, width |-> width]
Message(cmd, length, signals) == [cmd |-> cmd, length |-> length, signals |-> signals]

\* Fields of four bytes, one after the other, and of one byte.
Word32   == Signal(0, 32, 32)
Words32  == <<Word32, Signal(32, 32, 32)>>
Byte(i)  == Signal(8 * i, 8, 8)

-----------------------------------------------------------------------------
(* can_simple_messages.hpp: cmd_id, msg_length, and the signals in the     *)
(* order encode_buf writes them and decode_buf reads them.                 *)

Announcements ==
  {Message(0, 8, [i \in 1..8 |-> Byte(i - 1)]),                          \* Get_Version
   Message(1, 8, <<Word32, Byte(4), Byte(5), Signal(48, 1, 8)>>),        \* Heartbeat
   Message(2, 0, <<>>)}                                                  \* Estop

Discovery ==
  {Message(3, 8, Words32),                         \* Get_Error
   Message(6, 8, <<Byte(0), Signal(8, 48, 64)>>),  \* Address
   Message(7, 8, <<Word32>>),                      \* Set_Axis_State
   Message(9, 8, Words32)}                         \* Get_Encoder_Estimates

Setpoints ==
  {Message(11, 8, Words32),                                              \* Set_Controller_Mode
   Message(12, 8, <<Word32, Signal(32, 16, 16), Signal(48, 16, 16)>>),   \* Set_Input_Pos
   Message(13, 8, Words32),                                              \* Set_Input_Vel
   Message(14, 8, <<Word32>>)}                                           \* Set_Input_Torque

Limits ==
  {Message(15, 8, Words32),     \* Set_Limits
   Message(17, 8, <<Word32>>),  \* Set_Traj_Vel_Limit
   Message(18, 8, Words32),     \* Set_Traj_Accel_Limits
   Message(19, 8, <<Word32>>)}  \* Set_Traj_Inertia

Measurements ==
  {Message(20, 8, Words32),     \* Get_Iq
   Message(21, 8, Words32),     \* Get_Temperature
   Message(22, 1, <<Byte(0)>>), \* Reboot
   Message(23, 8, Words32)}     \* Get_Bus_Voltage_Current

Tuning ==
  {Message(24, 1, <<Byte(0)>>), \* Clear_Errors
   Message(25, 8, <<Word32>>),  \* Set_Absolute_Position
   Message(26, 8, <<Word32>>),  \* Set_Pos_Gain
   Message(27, 8, Words32)}     \* Set_Vel_Gains

Powers ==
  {Message(28, 8, Words32),     \* Get_Torques
   Message(29, 8, Words32),     \* Get_Powers
   Message(31, 0, <<>>)}        \* Enter_DFU_Mode

Messages ==
  UNION {Announcements, Discovery, Setpoints, Limits, Measurements, Tuning, Powers}

-----------------------------------------------------------------------------
(* The node's own layouts: a field is some bytes at an offset.             *)

Bytes(offset, n) == Signal(8 * offset, 8 * n, 8 * n)

\* enum CmdId, the commands the node sends.
kSetAxisState      == 7
kSetControllerMode == 11
kSetInputPos       == kSetControllerMode + 1
kSetInputVel       == kSetInputPos + 1
kSetInputTorque    == kSetInputVel + 1
kClearErrors       == 24

\* The can_frame of request_state_callback sends all its bytes.
BadRequestState == Message(kSetAxisState, 8, <<Bytes(0, 4)>>)
RequestState == Message(kSetAxisState, 4, <<Bytes(0, 4)>>)

\* The frames that start as "= {}": send_clear_errors, send_axis_idle, and
\* ctrl_msg_callback's mode frame and setpoint frames.
StartupFrames ==
  {Message(kClearErrors, 1, <<Bytes(0, 1)>>),
   Message(kSetAxisState, 4, <<Bytes(0, 4)>>)}

\* The feed-forwards change places.
BadSetpointFrames ==
  {Message(kSetControllerMode, 8, <<Bytes(0, 4), Bytes(4, 4)>>),
   Message(kSetInputTorque, 4, <<Bytes(0, 4)>>),
   Message(kSetInputVel, 8, <<Bytes(0, 4), Bytes(4, 4)>>),
   Message(kSetInputPos, 8, <<Bytes(0, 4), Bytes(6, 2), Bytes(4, 2)>>)}

SetpointFrames ==
  {Message(kSetControllerMode, 8, <<Bytes(0, 4), Bytes(4, 4)>>),
   Message(kSetInputTorque, 4, <<Bytes(0, 4)>>),
   Message(kSetInputVel, 8, <<Bytes(0, 4), Bytes(4, 4)>>),
   Message(kSetInputPos, 8, <<Bytes(0, 4), Bytes(4, 2), Bytes(6, 2)>>)}

\* recv_callback: the cases of the switch, the length verify_length wants.
Floats == <<Bytes(0, 4), Bytes(4, 4)>>
NodeReads ==
  {Message(1, 8, <<Bytes(0, 4), Bytes(4, 1), Bytes(5, 1), Bytes(6, 1)>>),  \* kHeartbeat
   Message(3, 8, Floats),                           \* kGetError, two uint32_t
   Message(9, 8, Floats), Message(20, 8, Floats),   \* kGetEncoderEstimates, kGetIq
   Message(21, 8, Floats), Message(23, 8, Floats),  \* kGetTemp, kGetBusVoltageCurrent
   Message(28, 8, Floats)}                          \* kGetTorques

-----------------------------------------------------------------------------
(* Who talks to whom.                                                      *)

Transfer(cmd, dlc, expected, writes, reads, dirty, strays, report) ==
  [cmd |-> cmd, dlc |-> dlc, expected |-> expected, writes |-> writes,
   reads |-> reads, dirty |-> dirty, strays |-> strays, report |-> report]

\* A tool that uses the classes at both ends, on a buffer of its own; they
\* check no length.
ToolTransfers ==
  {Transfer(m.cmd, m.length, 0..8, m.signals, m.signals, TRUE, TRUE, FALSE) : m \in Messages}

\* The drive's layouts are those of the classes.
DriveLayout(cmd) == CHOOSE m \in Messages : m.cmd = cmd

Command(m, dirty) ==
  Transfer(m.cmd, m.length, 0..8, m.signals, DriveLayout(m.cmd).signals, dirty, FALSE, FALSE)

\* The node to its drive.
NodeTransfers ==
  {Command(m, FALSE) : m \in StartupFrames \cup SetpointFrames} \cup {Command(RequestState, TRUE)}

\* The drive, which clears what it does not use, to the node: the messages
\* the node has a case for.
DriveTransfers ==
  {LET d == DriveLayout(m.cmd)
   IN Transfer(d.cmd, d.length, {m.length}, d.signals, m.signals, FALSE, FALSE, TRUE) :
     m \in NodeReads}

AllTransfers == ToolTransfers \cup NodeTransfers \cup DriveTransfers
=============================================================================
