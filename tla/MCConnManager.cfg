SPECIFICATION MCSpec
CONSTANTS
  TargetOutbound = 2
  MaxFailedAttempts = 2
  Permanents = 1
  OneShots = 0
  DisconnectAny = FALSE
  MayStop = FALSE
  MayCancel = TRUE
  MaxFailures = 2
  MaxEnds = 1
INVARIANTS
  NoLeak
  OutboundBounded
  PoolInv
PROPERTIES
  CanceledStays
  PoolRefilled
  StopEnds
CHECK_DEADLOCK FALSE
