---------------------------- MODULE VelocityTest ----------------------------
(***************************************************************************)
(* scripts/velocity_ramp_test.py: enable the motor, ask for closed loop,   *)
(* command a velocity once controller_status confirms it, watch the axis   *)
(* state, and clean up: velocity zero, then IDLE.                          *)
(*                                                                         *)
(* Every wait is a loop of spin_once, each of which handles at most one    *)
(* callback, until something holds or a deadline passes; a deadline is an  *)
(* action that is always possible while the script waits.  The timer ticks *)
(* at least once in the half second of the clean-up, as it does at the     *)
(* default 10 Hz.  Ctrl-C is external: rclpy shuts the context down and    *)
(* Python raises KeyboardInterrupt, in either order.                       *)
(*                                                                         *)
(* An operator whose name starts with "Bad" is the next definition with a  *)
(* bug in it; it stands in for that definition when a property is tested.  *)
(***************************************************************************)
EXTENDS MotorNode

CONSTANT Tester    \* this script's node

VARIABLES
  step,      \* where main() is
  vel,       \* _vel
  seen,      \* _axis_state
  found,     \* the services were found
  context,   \* rclpy.ok()
  sigint     \* Ctrl-C: not pressed, pressed, raised as KeyboardInterrupt

testVars == <<step, vel, seen, found, context, sigint>>

Goto(from, to) == step \in from /\ step' = to

Setting == {"warm_up", "wait_services", "clearing", "enabling", "requesting", "confirming"}
Spinning == Setting \cup {"running", "clean_up", "idling"}

\* The answer to the request the script waits for is in.
Answered == answer[Tester] # "none"

-----------------------------------------------------------------------------
(* Callbacks.                                                              *)

Tick ==
  /\ step \in Spinning /\ context
  /\ drive' = Commanded(vel)
  /\ UNCHANGED <<enabled, drivestop, calls, serving, waits, answer>>
  /\ UNCHANGED testVars

OnStatus ==
  /\ step \in Spinning /\ context
  /\ seen' = drive.state
  /\ UNCHANGED <<nodeVars, step, vel, found, context, sigint>>

-----------------------------------------------------------------------------
(* main().                                                                 *)

WarmedUp ==
  /\ context /\ Goto({"warm_up"}, "wait_services")
  /\ UNCHANGED <<nodeVars, vel, seen, found, context, sigint>>

\* wait_services; clear_errors is called.
ServicesReady ==
  /\ context /\ Goto({"wait_services"}, "clearing")
  /\ found' = TRUE
  /\ UNCHANGED <<nodeVars, vel, seen, context, sigint>>

\* Whatever became of clear_errors, set_enabled(True) is called.
Cleared ==
  /\ context /\ Goto({"clearing"}, "enabling")
  /\ Call(Tester, "set_enabled", "true")
  /\ UNCHANGED <<vel, seen, found, context, sigint>>

\* Closed loop is requested only if the motor was enabled.
Enabled ==
  /\ context /\ Goto({"enabling"}, "requesting")
  /\ answer[Tester] = "success"
  /\ Call(Tester, "request_axis_state", "closed_loop")
  /\ UNCHANGED <<vel, seen, found, context, sigint>>

\* The answer is awaited; success is left to the status topic.
Requested ==
  /\ context /\ Goto({"requesting"}, "confirming")
  /\ Answered
  /\ Leave(Tester)
  /\ UNCHANGED <<vel, seen, found, context, sigint>>

Confirmed ==
  /\ context /\ Goto({"confirming"}, "running")
  /\ seen = "closed_loop"
  /\ vel' = "target"
  /\ UNCHANGED <<nodeVars, seen, found, context, sigint>>

\* The return of main's try block: nobody waits any more, finally begins.
EnterCleanUp ==
  /\ step' = "clean_up" /\ vel' = "zero"
  /\ Leave(Tester)
  /\ UNCHANGED <<seen, found, context, sigint>>

\* The clean-up is left out when a step fails before the motor runs.
BadGivesUp ==
  /\ \/ step \in {"wait_services", "enabling", "requesting"} /\ ~Answered
     \/ step = "enabling" /\ answer[Tester] = "failure"
     \/ step = "confirming" /\ seen # "closed_loop"
  /\ step' = "done"
  /\ Leave(Tester)
  /\ UNCHANGED <<vel, seen, found, context, sigint>>

\* A deadline passes, or set_enabled is refused.
GivesUp ==
  /\ \/ step \in {"wait_services", "enabling", "requesting"} /\ ~Answered
     \/ step = "enabling" /\ answer[Tester] = "failure"
     \/ step = "confirming" /\ seen # "closed_loop"
  /\ EnterCleanUp

\* The drive is never found to have left closed loop.
BadDroppedOut ==
  /\ step = "running" /\ ~context
  /\ EnterCleanUp

DroppedOut ==
  /\ step = "running" /\ context /\ seen # "closed_loop"
  /\ EnterCleanUp

\* The context is gone: a loop ends, or a call raises.
ContextLost ==
  /\ step \in Setting \cup {"running"} /\ ~context
  /\ EnterCleanUp

\* The last ticks have published zero; IDLE is called if its service is
\* there, as it may be although the script was interrupted before it looked.
RequestIdle ==
  /\ context /\ Goto({"clean_up"}, "idling")
  /\ calls' = [calls EXCEPT !["request_axis_state"] =
                 Append(@, [client |-> Tester, srv |-> "request_axis_state", arg |-> "idle"])]
  /\ waits' = [waits EXCEPT ![Tester] =
                 [client |-> Tester, srv |-> "request_axis_state", arg |-> "idle"]]
  /\ drive' = Commanded("zero")
  /\ UNCHANGED <<enabled, drivestop, serving, answer>>
  /\ UNCHANGED <<vel, seen, found, context, sigint>>

\* IDLE is not called either if the drive was not seen in closed loop.
BadSkipIdle ==
  /\ ~context \/ ~found \/ seen # "closed_loop"
  /\ Goto({"clean_up"}, "done")
  /\ UNCHANGED <<nodeVars, vel, seen, found, context, sigint>>

\* No context or no service: there is nothing to call.
SkipIdle ==
  /\ ~context \/ ~found
  /\ Goto({"clean_up"}, "done")
  /\ UNCHANGED <<nodeVars, vel, seen, found, context, sigint>>

\* Answered, or given up, or the call raises.
CleanedUp ==
  /\ Goto({"idling"}, "done")
  /\ Leave(Tester)
  /\ UNCHANGED <<vel, seen, found, context, sigint>>

-----------------------------------------------------------------------------
(* Ctrl-C.                                                                 *)

CtrlC ==
  /\ step # "done" /\ sigint = "no"
  /\ sigint' = "pressed"
  /\ UNCHANGED <<nodeVars, step, vel, seen, found, context>>

ContextShutsDown ==
  /\ sigint # "no" /\ context
  /\ context' = FALSE
  /\ UNCHANGED <<nodeVars, step, vel, seen, found, sigint>>

KeyboardInterrupt ==
  /\ sigint = "pressed" /\ step \in Setting \cup {"running"}
  /\ sigint' = "raised"
  /\ step' = "clean_up" /\ vel' = "zero"
  /\ Leave(Tester)
  /\ UNCHANGED <<seen, found, context>>

\* In the finally block nothing catches it.
InterruptInCleanUp ==
  /\ sigint = "pressed" /\ step \in {"clean_up", "idling"}
  /\ sigint' = "raised"
  /\ step' = "done"
  /\ Leave(Tester)
  /\ UNCHANGED <<vel, seen, found, context>>

-----------------------------------------------------------------------------
TestInit ==
  /\ step = "warm_up" /\ vel = "zero" /\ seen = "none"
  /\ found = FALSE /\ context = TRUE /\ sigint = "no"

MainStep ==
  \/ WarmedUp
  \/ ServicesReady
  \/ Cleared
  \/ Enabled
  \/ Requested
  \/ Confirmed
  \/ GivesUp
  \/ DroppedOut
  \/ ContextLost
  \/ RequestIdle
  \/ SkipIdle
  \/ CleanedUp

TestStep ==
  \/ Tick
  \/ OnStatus
  \/ MainStep
  \/ CtrlC
  \/ ContextShutsDown
  \/ KeyboardInterrupt
  \/ InterruptInCleanUp

TestTypeOK ==
  /\ step \in Spinning \cup {"done"}
  /\ vel \in {"zero", "target"}
  /\ seen \in DriveStates \cup {"none"}
  /\ found \in BOOLEAN /\ context \in BOOLEAN
  /\ sigint \in {"no", "pressed", "raised"}
  /\ vel = "target" => step = "running"
=============================================================================
