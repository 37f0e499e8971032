SPECIFICATION Spec
CONSTANTS
  short = short
  long = long
  Keys = {k}
  Vals = {v}
  Blocks = {}
  Size <- ShortAndLong
  MaxBlockFileSize = 2
  MaxFile = 1
  Readers = {r}
  WriteLoc = WriteLoc
  MaxFaults = 0
  PowerLoss = FALSE
  Nil = Nil
INVARIANTS
  SnapshotAtPoint
