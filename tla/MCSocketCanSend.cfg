SPECIFICATION SocketSpec
CONSTANTS
  EventFds = {"sub_evt", "srv_evt"}
  Sockets = {"can"}
  CAN = "can"
  BatchMax = 16
  MayDrop = {}
  RxMax = 2
  Foreign = TRUE
INVARIANT
  SendReportsFailure
CHECK_DEADLOCK FALSE
