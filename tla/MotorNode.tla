----------------------------- MODULE MotorNode ------------------------------
(***************************************************************************)
(* A custom_odrive_node and its drive, as the Python scripts see them: its *)
(* services, its control_message topic, /drivestop.                        *)
(* CustomODriveNode has the node's threads and mailboxes; here the effect  *)
(* of a request is one step, and only the order between requests is kept.  *)
(*                                                                         *)
(* Each service answers its requests in their order; the services share a  *)
(* callback group, so one request is in progress at a time, for seconds if *)
(* it waits for a heartbeat.  A client that stops waiting does not take    *)
(* its request back.  clear_errors changes nothing the scripts see and is  *)
(* left out, the topics have no delay of their own, and the CAN bus loses  *)
(* nothing.                                                                *)
(***************************************************************************)
EXTENDS Sequences

CONSTANTS
  Clients,   \* nodes that call services
  Nothing    \* no request, no message

Services == {"set_enabled", "request_axis_state"}
Arguments(s) == IF s = "set_enabled" THEN {"true", "false"} ELSE {"idle", "closed_loop"}
RequestsTo(s) == [client : Clients, srv : {s}, arg : Arguments(s)]
Requests == UNION {RequestsTo(s) : s \in Services}
DriveStates == {"idle", "closed_loop", "calibrating"}

VARIABLES
  enabled,     \* enabled_
  drivestop,   \* drivestop_active_
  drive,       \* external: axis state and velocity setpoint of the drive
  calls,       \* requests in each service's queue
  serving,     \* the request in progress and its outcome
  waits,       \* the request each client waits for
  answer       \* the answer to it, when it has come

nodeVars == <<enabled, drivestop, drive, calls, serving, waits, answer>>

Idle(d) == [d EXCEPT !.state = "idle"]

-----------------------------------------------------------------------------
(* What a client does; it leaves the rest of the node alone.               *)

\* call_async, and the wait begins.
Call(c, s, a) ==
  /\ calls' = [calls EXCEPT ![s] = Append(@, [client |-> c, srv |-> s, arg |-> a])]
  /\ waits' = [waits EXCEPT ![c] = [client |-> c, srv |-> s, arg |-> a]]
  /\ answer' = [answer EXCEPT ![c] = "none"]
  /\ UNCHANGED <<enabled, drivestop, drive, serving>>

\* The client waits no longer: it was answered, or gave up.
Leave(c) ==
  /\ waits' = [waits EXCEPT ![c] = Nothing]
  /\ answer' = [answer EXCEPT ![c] = "none"]
  /\ UNCHANGED <<enabled, drivestop, drive, calls, serving>>

-----------------------------------------------------------------------------
(* Services.  An outcome is what the drive becomes, and success.           *)

SetEnabled(arg) ==
  IF arg = "true"
  THEN /\ enabled' = (enabled \/ ~drivestop)
       /\ serving'.success = ~drivestop
       /\ drive' = drive
  ELSE /\ enabled' = FALSE
       /\ serving'.success
       /\ drive' = Idle(drive)

\* IDLE is always tried, anything else only if both latches allow it.  The
\* drive may refuse to enter closed loop, and a heartbeat that confirms may
\* come too late.
RequestAxisState(arg) ==
  /\ enabled' = enabled
  /\ \/ /\ arg = "idle" /\ drive' = Idle(drive)
     \/ /\ arg # "idle" /\ enabled /\ ~drivestop
        /\ drive' = [drive EXCEPT !.state = arg]
     \/ /\ arg # "idle" /\ drive' = drive /\ ~serving'.success

Serve(s) ==
  /\ serving.call = Nothing /\ calls[s] # <<>>
  /\ calls' = [calls EXCEPT ![s] = Tail(@)]
  /\ serving' \in [call : {Head(calls[s])}, success : BOOLEAN]
  /\ CASE s = "set_enabled"        -> SetEnabled(Head(calls[s]).arg)
       [] s = "request_axis_state" -> RequestAxisState(Head(calls[s]).arg)
  /\ UNCHANGED <<drivestop, waits, answer>>

\* The callback returns; the answer finds its client still waiting, or not.
Respond ==
  /\ serving.call # Nothing
  /\ serving' = [call |-> Nothing, success |-> FALSE]
  /\ answer' = IF \E c \in Clients : waits[c] = serving.call
               THEN [answer EXCEPT ![serving.call.client] =
                       IF serving.success THEN "success" ELSE "failure"]
               ELSE answer
  /\ UNCHANGED <<enabled, drivestop, drive, calls, waits>>

-----------------------------------------------------------------------------
(* Topics, and the drive.                                                  *)

\* What the drive is after a control_message: it is sent, or dropped.
Commanded(v) == IF enabled /\ ~drivestop THEN [drive EXCEPT !.vel = v] ELSE drive

\* /drivestop is published; the change to true queues an IDLE.
Drivestop(stop) ==
  /\ stop # drivestop
  /\ drivestop' = stop
  /\ drive' = IF stop THEN Idle(drive) ELSE drive
  /\ UNCHANGED <<enabled, calls, serving, waits, answer>>

\* A fault, the axis watchdog, the end of a procedure.
DriveDisarms ==
  /\ drive.state # "idle"
  /\ drive' = Idle(drive)
  /\ UNCHANGED <<enabled, drivestop, calls, serving, waits, answer>>

NodeInit ==
  /\ enabled \in BOOLEAN /\ drivestop = FALSE
  /\ drive = [state |-> "idle", vel |-> "zero"]
  /\ calls = [s \in Services |-> <<>>]
  /\ serving = [call |-> Nothing, success |-> FALSE]
  /\ waits = [c \in Clients |-> Nothing]
  /\ answer = [c \in Clients |-> "none"]

ServiceStep == Respond \/ \E s \in Services : Serve(s)

NodeStep ==
  \/ ServiceStep
  \/ \E stop \in BOOLEAN : Drivestop(stop)
  \/ DriveDisarms

NodeTypeOK ==
  /\ enabled \in BOOLEAN /\ drivestop \in BOOLEAN
  /\ drive \in [state : DriveStates, vel : {"zero", "target"}]
  /\ DOMAIN calls = Services /\ \A s \in Services : calls[s] \in Seq(RequestsTo(s))
  /\ serving \in [call : Requests \cup {Nothing}, success : BOOLEAN]
  /\ waits \in [Clients -> Requests \cup {Nothing}]
  /\ answer \in [Clients -> {"none", "success", "failure"}]
  /\ \A c \in Clients : answer[c] # "none" => waits[c] # Nothing
=============================================================================
