SPECIFICATION FairSpec
CONSTANTS
  ControlMessages <- MCOneMessage
  AxisRequests = {"CLOSED_LOOP"}
  DrivestopMsgs = {TRUE, FALSE}
  Calls = {"enable", "disable"}
  Heartbeats <- MCHeartbeats
  Launches <- MCDefault
  TxMayFail = FALSE
PROPERTIES
  DisableTakesEffect
  StopTakesEffect
  SetpointForwarded
  ShutdownCompletes
  SignalsServed
