SPECIFICATION Spec
CONSTANTS
  Blocks <- ForkBlocks
  Genesis = "g"
  Parent <- ForkParent
  Work <- ForkWork
  Outpoints <- ForkOutpoints
  Spends <- ForkSpends
  Creates <- ForkCreates
  Insane = {}
  OldVersion = {}
  OutOfContext = {}
  Predating = {}
  TooEasy = {}
  BadConnect = {"a2"}
  Checkpoints <- NoCheckpoints
  FastBlocks = {"a1"}
  MaxOrphanBlocks = 2
  OrphanTTL = 1
  MaxTime = 0
  MaxFaults = 0
  None = None
INVARIANTS
  OnlyFastUnchecked
