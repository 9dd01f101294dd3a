SPECIFICATION FairSysSpec
CONSTANTS
  ControlMessages = {}
  AxisRequests = {"CLOSED_LOOP", "CALIBRATION"}
  DrivestopMsgs = {}
  Calls = {}
  Heartbeats = {}
  Launches <- MCDefault
  TxMayFail = TRUE
  Procedures = {"CALIBRATION"}
  MaxRx = 1
INVARIANT
  SuccessIsTrue
PROPERTY
  ReachedIsConfirmed
