SPECIFICATION Spec
CONSTANTS
  ControlMessages = {}
  AxisRequests = {"CLOSED_LOOP"}
  DrivestopMsgs = {TRUE, FALSE}
  Calls = {}
  Heartbeats <- MCHeartbeats
  Launches <- MCDefault
  TxMayFail = FALSE
INVARIANT
  StopReachesDrive
