SPECIFICATION Spec
CONSTANTS
  p = p
  q = q
  Blocks <- Short
  Genesis = "g"
  Parent <- ShortParent
  Peers = {p, q}
  Witness = {p, q}
  SegwitActive = FALSE
  Checkpoints = {"b2"}
  Recent = {"b2", "b3"}
  StartTip <- ShortStart
  EndTip <- ShortEnd
  MaxBlocksPerMsg = 2
  MaxHeadersPerMsg = 1
  MaxInvPerMsg = 4
  MaxRequestedBlocks = 4
  MinInFlight = 2
  MaxFaults = 1
  LocalBlocks = {"b3"}
  None = None

PROPERTIES
  Synced
CHECK_DEADLOCK FALSE
