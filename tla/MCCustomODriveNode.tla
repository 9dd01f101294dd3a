------------------------- MODULE MCCustomODriveNode -------------------------
(***************************************************************************)
(* Small instances of CustomODriveNode for TLC.                            *)
(***************************************************************************)
EXTENDS CustomODriveNode

Velocity == [control_mode |-> "velocity", input_mode |-> "passthrough", value |-> "v"]
Voltage  == [control_mode |-> "voltage", input_mode |-> "passthrough", value |-> "v"]

\* A voltage setpoint has a mode and no frame.
MCMessages     == {Velocity, Voltage}
MCOneMessage   == {Velocity}

MCIdleSeen   == [axis_state |-> IDLE, procedure_result |-> "SUCCESS"]
MCLoopSeen   == [axis_state |-> CLOSED_LOOP, procedure_result |-> BUSY]
MCHeartbeats == {MCLoopSeen}

\* The defaults; and started disabled, with the startup frames or leaving the
\* drive as it is.
MCDefault == {[start_enabled |-> TRUE, idle_on_startup |-> TRUE,
               idle_on_shutdown |-> TRUE]}
MCDisabled == {[start_enabled |-> FALSE, idle_on_startup |-> b,
                idle_on_shutdown |-> TRUE] : b \in BOOLEAN}
=============================================================================
