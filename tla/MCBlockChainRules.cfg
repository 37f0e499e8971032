SPECIFICATION Spec
CONSTANTS
  Blocks <- RuleBlocks
  Genesis = "g"
  Parent <- RuleParent
  Work <- RuleWork
  Outpoints = {}
  Spends <- Nothing
  Creates <- Nothing
  Insane = {"insane"}
  OldVersion = {"old"}
  OutOfContext = {"a2"}
  Predating = {"late"}
  TooEasy = {"easy"}
  BadConnect = {"x3"}
  Checkpoints <- RuleCheckpoints
  FastBlocks = {"a1", "a2"}
  MaxOrphanBlocks = 1
  OrphanTTL = 0
  MaxTime = 1
  MaxFaults = 1
  None = None
INVARIANTS
  BestHasMostWork
PROPERTIES
  CheckpointFinal
