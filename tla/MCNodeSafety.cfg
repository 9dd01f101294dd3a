SPECIFICATION Spec
CONSTANTS
  ControlMessages <- MCMessages
  AxisRequests = {"IDLE", "CLOSED_LOOP"}
  DrivestopMsgs = {TRUE, FALSE}
  Calls = {"enable", "disable", "clear_errors"}
  Heartbeats = {}
  Launches <- MCDisabled
  TxMayFail = FALSE
INVARIANTS
  DisableSticks
  LateSetpointIsFollowed
  MailboxesFilled
  NewestStateDelivered
  FaultsClearedFirst
  SetpointUnderItsMode
  ShutdownLeavesIdle
PROPERTIES
  StopHolds
  StopComesThrough
