SPECIFICATION Spec
CONSTANTS
  NodeId = {"n1"}
  HEARTBEAT_TIMEOUT = 6
  MaxGap = 1
  MaxDelay = 2
  MaxSkew = 1
  MaxPeriod = 2
  Start = 2
  MaxTime = 16
INVARIANTS
  TypeOK
  NoFalseAlarm
  DetectedInTime
