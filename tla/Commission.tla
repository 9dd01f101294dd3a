----------------------------- MODULE Commission -----------------------------
(***************************************************************************)
(* scripts/commission.py: park the motor's node, or have the operator say  *)
(* that there is none, then configure the drive over Fibre, calibrate it   *)
(* and save the configuration.                                             *)
(*                                                                         *)
(* The Fibre library is external.  find_any runs on a worker thread and    *)
(* may find the drive, fail, or block for ever; the interpreter joins the  *)
(* worker before the process ends.  Every other Fibre call returns or      *)
(* raises.  The prompts are answered yes or no.                            *)
(*                                                                         *)
(* An operator whose name starts with "Bad" is the next definition with a  *)
(* bug in it; it stands in for that definition when a property is tested.  *)
(***************************************************************************)
EXTENDS MotorNode, Naturals

CONSTANTS
  Commissioner,   \* this script's node
  Invocations     \* command lines: --ns, --calibrate, --save

ASSUME CommissionAssumption ==
  Invocations \subseteq [ns : BOOLEAN, calibrate : BOOLEAN, save : BOOLEAN]

VARIABLES
  stage,      \* where main() is
  options,    \* the command line
  latch,      \* _drivestop, None being as good as False
  worker,     \* the thread of find_any
  effects,    \* what was done to the drive, or taken for done
  exit_code   \* of main(), or Nothing

commissionVars == <<stage, options, latch, worker, effects, exit_code>>

Parking == {"check", "prompt_bench", "wait_services", "disabling", "idling", "observing"}
Fibre   == {"connecting", "applying", "prompt_calibrate", "preparing", "waiting",
            "calibrating", "polling", "saving"}

Advance(from, to) == stage = from /\ stage' = to

\* main() returns with an exit code, or raises SystemExit.
Exit(code) ==
  /\ stage' = "joining"
  /\ exit_code' = code
  /\ UNCHANGED <<options, latch, worker>>

-----------------------------------------------------------------------------
(* ParkHelper.                                                             *)

\* _on_drivestop; the value is not read again after check_drivestop.
OnDrivestop ==
  /\ stage = "check"
  /\ latch' = drivestop
  /\ UNCHANGED <<nodeVars, stage, options, worker, effects, exit_code>>

\* check_drivestop, after half a second of callbacks.
NotStopped ==
  /\ ~latch
  /\ Advance("check", IF options.ns THEN "wait_services" ELSE "prompt_bench")
  /\ UNCHANGED <<nodeVars, options, latch, worker, effects, exit_code>>

\* It is asserted.
Stopped ==
  /\ stage = "check" /\ latch
  /\ Exit(1)
  /\ UNCHANGED <<nodeVars, effects>>

BenchConfirmed ==
  /\ Advance("prompt_bench", "connecting")
  /\ UNCHANGED <<nodeVars, options, latch, worker, effects, exit_code>>

CallDisable ==
  /\ Advance("wait_services", "disabling")
  /\ Call(Commissioner, "set_enabled", "false")
  /\ UNCHANGED <<options, latch, worker, effects, exit_code>>

\* A call that is not answered in time is taken for granted.
BadDisabled ==
  /\ Advance("disabling", "idling")
  /\ Call(Commissioner, "request_axis_state", "idle")
  /\ UNCHANGED <<options, latch, worker, effects, exit_code>>

\* set_enabled(false) succeeded; IDLE is called.
Disabled ==
  /\ answer[Commissioner] = "success"
  /\ Advance("disabling", "idling")
  /\ Call(Commissioner, "request_axis_state", "idle")
  /\ UNCHANGED <<options, latch, worker, effects, exit_code>>

\* The answer to IDLE counts, not its success.
IdleAnswered ==
  /\ answer[Commissioner] # "none"
  /\ Advance("idling", "observing")
  /\ Leave(Commissioner)
  /\ UNCHANGED <<options, latch, worker, effects, exit_code>>

\* No services, no answer in time, or set_enabled(false) failed.
ParkFails ==
  /\ \/ stage = "wait_services"
     \/ stage = "disabling" /\ answer[Commissioner] # "success"
     \/ stage = "idling" /\ answer[Commissioner] = "none"
  /\ Exit(1)
  /\ Leave(Commissioner)
  /\ UNCHANGED effects

\* A prompt is answered no, or there is nobody to answer.
NotConfirmed ==
  /\ stage \in {"prompt_bench", "prompt_calibrate"}
  /\ Exit(1)
  /\ UNCHANGED <<nodeVars, effects>>

\* The status confirms, or the warning is printed; import odrive, and
\* find_any begins.
Parked ==
  /\ Advance("observing", "connecting")
  /\ UNCHANGED <<nodeVars, options, latch, worker, effects, exit_code>>

-----------------------------------------------------------------------------
(* Fibre.                                                                  *)

StartSearch ==
  /\ stage = "connecting" /\ worker = "none"
  /\ worker' = "searching"
  /\ UNCHANGED <<nodeVars, stage, options, latch, effects, exit_code>>

\* find_any returns the drive, or raises.
SearchEnds(result) ==
  /\ worker = "searching"
  /\ worker' = result
  /\ UNCHANGED <<nodeVars, stage, options, latch, effects, exit_code>>

Connected ==
  /\ worker = "found"
  /\ Advance("connecting", "applying")
  /\ UNCHANGED <<nodeVars, options, latch, worker, effects, exit_code>>

\* The wall clock is left to find_any.
BadSearchFails ==
  /\ stage = "connecting" /\ worker = "failed"
  /\ Exit(1)
  /\ UNCHANGED <<nodeVars, effects>>

\* odrive is not installed, find_any raised, or the wall clock ran out.
SearchFails ==
  /\ stage = "connecting"
  /\ Exit(1)
  /\ UNCHANGED <<nodeVars, effects>>

\* apply_config ran to its end.
ConfigApplied ==
  /\ Advance("applying", IF options.calibrate THEN "prompt_calibrate" ELSE "saving")
  /\ effects' = effects \cup {"applied"}
  /\ UNCHANGED <<nodeVars, options, latch, worker, exit_code>>

CalibrationConfirmed ==
  /\ Advance("prompt_calibrate", "preparing")
  /\ UNCHANGED <<nodeVars, options, latch, worker, effects, exit_code>>

FibreDrive(d) ==
  /\ drive' = d
  /\ UNCHANGED <<enabled, drivestop, calls, serving, waits, answer>>

\* run_calibration: IDLE first, and half a second for it.
FibreIdle ==
  /\ Advance("preparing", "waiting")
  /\ FibreDrive(Idle(drive))
  /\ UNCHANGED <<options, latch, worker, effects, exit_code>>

\* FULL_CALIBRATION_SEQUENCE, by run_state or, without odrive.utils, written
\* to the drive and polled.  The drive begins at once, from IDLE only, and not
\* with an error latched: clear_errors may have failed, with a warning.
StartCalibration ==
  /\ stage = "waiting"
  /\ stage' \in {"calibrating", "polling"}
  /\ \/ FibreDrive(drive)
     \/ drive.state = "idle" /\ FibreDrive([drive EXCEPT !.state = "calibrating"])
  /\ UNCHANGED <<options, latch, worker, effects, exit_code>>

\* run_state does not tell whether the procedure succeeded.
BadCalibrated ==
  /\ Advance("calibrating", "saving")
  /\ FibreDrive(Idle(drive))
  /\ effects' \in {effects, effects \cup {"calibrated"}}
  /\ UNCHANGED <<options, latch, worker, exit_code>>

\* run_state returned: the procedure succeeded and the axis is back in IDLE.
Calibrated ==
  /\ Advance("calibrating", "saving")
  /\ drive.state = "calibrating"
  /\ FibreDrive(Idle(drive))
  /\ effects' = effects \cup {"calibrated"}
  /\ UNCHANGED <<options, latch, worker, exit_code>>

\* The poll reads IDLE and SUCCESS, of this calibration or from before it.
PolledIdle ==
  /\ Advance("polling", "saving")
  /\ drive.state = "idle"
  /\ effects' \in {effects \cup {"polled"}, effects \cup {"polled", "calibrated"}}
  /\ UNCHANGED <<nodeVars, options, latch, worker, exit_code>>

\* A call raises: in apply_config, which may have set a part of it, before or
\* during the calibration, which may go on without the script, or in save.  Or
\* the poll reads another result, or none before its deadline.
FibreFails ==
  /\ stage \in {"applying", "preparing", "waiting", "calibrating", "polling", "saving"}
  /\ stage = "saving" => options.save
  /\ Exit(1)
  /\ UNCHANGED <<nodeVars, effects>>

\* save_configuration: the drive reboots, with or without an answer.
Saved ==
  /\ stage = "saving" /\ options.save
  /\ FibreDrive([state |-> "idle", vel |-> "zero"])
  /\ effects' = effects \cup {"saved"}
  /\ Exit(0)

\* A drive that is lost before it saved looks like one that reboots.
LostInSave ==
  /\ stage = "saving" /\ options.save
  /\ effects' = effects \cup {"lost"}
  /\ Exit(0)
  /\ UNCHANGED nodeVars

NothingToSave ==
  /\ stage = "saving" /\ ~options.save
  /\ Exit(0)
  /\ UNCHANGED <<nodeVars, effects>>

\* The interpreter joins the worker thread, although the pool was shut down
\* without waiting, and the process ends.
ProcessEnds ==
  /\ worker # "searching"
  /\ Advance("joining", "exited")
  /\ UNCHANGED <<nodeVars, options, latch, worker, effects, exit_code>>

-----------------------------------------------------------------------------
CommissionInit ==
  /\ stage = "check"
  /\ options \in Invocations
  /\ latch = FALSE
  /\ worker = "none" /\ effects = {} /\ exit_code = Nothing

ScriptStep ==
  \/ NotStopped
  \/ Stopped
  \/ BenchConfirmed
  \/ CallDisable
  \/ Disabled
  \/ IdleAnswered
  \/ ParkFails
  \/ NotConfirmed
  \/ Parked
  \/ StartSearch
  \/ Connected
  \/ SearchFails
  \/ ConfigApplied
  \/ CalibrationConfirmed
  \/ FibreIdle
  \/ StartCalibration
  \/ Calibrated
  \/ PolledIdle
  \/ FibreFails
  \/ Saved
  \/ LostInSave
  \/ NothingToSave
  \/ ProcessEnds

FindAny == \E result \in {"found", "failed"} : SearchEnds(result)

CommissionStep ==
  \/ OnDrivestop
  \/ ScriptStep
  \/ FindAny

CommissionTypeOK ==
  /\ stage \in Parking \cup Fibre \cup {"joining", "exited"}
  /\ options \in Invocations
  /\ latch \in BOOLEAN
  /\ worker \in {"none", "searching", "found", "failed"}
  /\ effects \subseteq {"applied", "calibrated", "polled", "saved", "lost"}
  /\ exit_code \in {0, 1, Nothing}
  /\ exit_code = Nothing <=> stage \in Parking \cup Fibre
=============================================================================
