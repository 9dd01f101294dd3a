SPECIFICATION FairSpec
CONSTANTS
  EventFds = {"sub_evt", "srv_evt"}
  Sockets = {"can"}
  BatchMax = 2
  MayDrop = {"sub_evt", "can"}
INVARIANTS
  BatchIsLive
  EventCount
PROPERTY
  SignalKept
CHECK_DEADLOCK FALSE
