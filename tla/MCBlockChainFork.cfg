SPECIFICATION Spec
CONSTANTS
  Blocks <- ForkBlocks
  Genesis = "g"
  Parent <- ForkParent
  Work <- ForkWork
  Outpoints <- ForkOutpoints
  Spends <- ForkSpends
  Creates <- ForkCreates
  Insane = {}
  OldVersion = {}
  OutOfContext = {}
  Predating = {}
  TooEasy = {}
  BadConnect = {}
  Checkpoints <- NoCheckpoints
  FastBlocks = {}
  MaxOrphanBlocks = 2
  OrphanTTL = 1
  MaxTime = 0
  MaxFaults = 2
  None = None
INVARIANTS
  DiskRecoverable
  VerdictsSound
  NoAssertError
  StorageInv
PROPERTIES
  VerdictsKept
  CallReturns
