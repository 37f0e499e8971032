SPECIFICATION Spec
CONSTANTS
  p = p
  q = q
  Blocks <- Fork
  Genesis = "g"
  Parent <- ForkParent
  Peers = {p, q}
  Witness = {p}
  SegwitActive = FALSE
  Checkpoints = {"b1", "b3"}
  Recent = {"b4", "b5"}
  StartTip <- ForkStart
  EndTip <- ForkEnd
  MaxBlocksPerMsg = 1
  MaxHeadersPerMsg = 1
  MaxInvPerMsg = 1
  MaxRequestedBlocks = 8
  MinInFlight = 2
  MaxFaults = 1
  LocalBlocks = {"b2"}
  None = None
INVARIANTS
  SyncInv
  FetchTracked
  HeadersLinked
CHECK_DEADLOCK FALSE
