SPECIFICATION SocketFairSpec
CONSTANTS
  EventFds = {"sub_evt", "srv_evt"}
  Sockets = {"can"}
  CAN = "can"
  BatchMax = 16
  MayDrop = {}
  RxMax = 2
  Foreign = TRUE
INVARIANT
  WatchesOnlySocket
PROPERTIES
  HealthySendsReachSocket
  FramesAreRead
  LoopOutlivesSocket
  StopReturns
CHECK_DEADLOCK FALSE
