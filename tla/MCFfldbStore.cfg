SPECIFICATION Spec
CONSTANTS
  short = short
  long = long
  Keys = {k}
  Vals = {v}
  Blocks = {short, long}
  Size <- ShortAndLong
  MaxBlockFileSize = 9
  MaxFile = 0
  Readers = {}
  WriteLoc = WriteLoc
  MaxFaults = 2
  PowerLoss = TRUE
  Nil = Nil
PROPERTIES
  IsDurableStore
