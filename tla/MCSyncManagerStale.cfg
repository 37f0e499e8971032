SPECIFICATION Spec
CONSTANTS
  p = p
  q = q
  Blocks <- Chain
  Genesis = "g"
  Parent <- ChainParent
  Peers = {p, q}
  Witness = {p, q}
  SegwitActive = FALSE
  Checkpoints = {"b2"}
  Recent = {"b3"}
  StartTip <- ChainStart
  EndTip <- ChainEnd
  MaxBlocksPerMsg = 2
  MaxHeadersPerMsg = 2
  MaxInvPerMsg = 4
  MaxRequestedBlocks = 4
  MinInFlight = 2
  MaxFaults = 0
  LocalBlocks = {}
  None = None

PROPERTIES
  Synced
CHECK_DEADLOCK FALSE
