----------------------------- MODULE Operators ------------------------------
(***************************************************************************)
(* Both scripts at work on one motor: somebody tests the velocity while    *)
(* somebody else commissions the drive.  Each script runs once.            *)
(***************************************************************************)
EXTENDS VelocityTest, Commission

ASSUME OperatorsAssumption ==
  /\ Clients = {Tester, Commissioner} /\ Tester # Commissioner
  /\ Nothing \notin Requests /\ Nothing \notin {0, 1}

VARIABLE late   \* history: set_enabled(True) was called after the park began

vars == <<nodeVars, testVars, commissionVars, late>>

Init ==
  /\ NodeInit /\ TestInit /\ CommissionInit
  /\ late = FALSE

\* Arming is late if the commission's set_enabled(False) was called before.
ArmsLate == Cleared /\ options.ns /\ stage \notin {"check", "wait_services"}

Next ==
  \/ NodeStep /\ UNCHANGED <<testVars, commissionVars, late>>
  \/ TestStep /\ UNCHANGED commissionVars /\ late' = (late \/ ArmsLate)
  \/ CommissionStep /\ UNCHANGED <<testVars, late>>

Spec == Init /\ [][Next]_vars

\* The node serves what is asked and its status arrives; the scripts run and
\* their deadlines pass; Fibre calls and prompts come to an end, but for
\* find_any, which "can still block indefinitely" (commission.py:204).
Fairness ==
  /\ WF_vars(ServiceStep /\ UNCHANGED <<testVars, commissionVars, late>>)
  /\ WF_vars(OnStatus /\ UNCHANGED <<commissionVars, late>>)
  /\ WF_vars(MainStep /\ UNCHANGED commissionVars /\ late' = (late \/ ArmsLate))
  /\ WF_vars(ScriptStep /\ UNCHANGED <<testVars, late>>)

FairSpec == Spec /\ Fairness

-----------------------------------------------------------------------------
(* Properties.                                                             *)

\* Every variable has its type.
TypeOK == NodeTypeOK /\ TestTypeOK /\ CommissionTypeOK /\ late \in BOOLEAN

\* While a parked drive is configured over Fibre its node is disabled, and
\* the drive not in closed loop, unless somebody arms the motor after the
\* park began: requests made before, their callers long gone, do not undo it.
ParkHolds ==
  options.ns /\ stage \in Fibre /\ ~late => ~enabled /\ drive.state # "closed_loop"

\* Exit code 0 means that the configuration was applied; that what --calibrate
\* asks for succeeded or, polled, found the axis in IDLE with a SUCCESS that may
\* be an older one; and that what --save asks for was done or the drive lost.
ExitCodeHonest ==
  exit_code = 0 =>
    /\ "applied" \in effects
    /\ options.calibrate => effects \cap {"calibrated", "polled"} # {}
    /\ options.save => effects \cap {"saved", "lost"} # {}

\* The test's IDLE is on its way.
IdlePending ==
  \E i \in DOMAIN calls["request_axis_state"] :
    calls["request_axis_state"][i] =
      [client |-> Tester, srv |-> "request_axis_state", arg |-> "idle"]

\* A test that was not interrupted ends with the drive out of closed loop or
\* the IDLE that takes it out still to be served: a closed-loop request whose
\* caller gave up is never served after it.
IdleIsLastWord ==
  step = "done" /\ sigint = "no" /\ drive.state = "closed_loop" => IdlePending

\* Commissioning comes to an exit code, also when find_any never returns.
CommissionDecides == stage = "check" ~> exit_code # Nothing

\* A test that was not interrupted leaves the drive out of closed loop for
\* good, whatever step it gave up at and however late its requests are served.
TestLeavesIdle ==
  step = "done" /\ sigint = "no" ~> [](drive.state # "closed_loop")

\* The test does not go on commanding a velocity to a drive that disarmed.
DisarmIsNoticed ==
  step = "running" /\ drive.state # "closed_loop"
    ~> step # "running" \/ drive.state = "closed_loop"

\* velocity_ramp_test.py:242: "Always try to zero velocity and IDLE so we do
\* not leave the wheel spinning."
NotLeftSpinning ==
  step = "done" /\ drive.state = "closed_loop" => drive.vel = "zero" \/ IdlePending
=============================================================================
