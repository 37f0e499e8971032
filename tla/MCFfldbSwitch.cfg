SPECIFICATION Spec
CONSTANTS
  short = short
  long = long
  Keys = {}
  Vals = {v}
  Blocks = {short, long}
  Size <- ShortAndLong
  MaxBlockFileSize = 2
  MaxFile = 5
  Readers = {}
  WriteLoc = WriteLoc
  MaxFaults = 0
  PowerLoss = TRUE
  Nil = Nil
INVARIANTS
  BlocksSynced
