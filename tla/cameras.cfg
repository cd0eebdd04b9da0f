SPECIFICATION Spec
CONSTANTS
  None = None
  Sample = 2
  QueueSize = 1
  ReconnectDelay = 1
  MaxBackoff = 1
  ReadFailures = 2
  Interval = 1
  HeartbeatTTL = 3
  JoinTimeout = 1
  ReleaseTimeout = 1
INVARIANTS StatusIsTruthful StreamIsReleased
PROPERTIES StreamRecovers StoppedHeartbeatLapses
CHECK_DEADLOCK FALSE
