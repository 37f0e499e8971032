SPECIFICATION Spec
CONSTANTS
  short = short
  long = long
  Keys = {}
  Vals = {v}
  Blocks = {short, long}
  Size <- ShortAndLong
  MaxBlockFileSize = 2
  MaxFile = 8
  Readers = {r}
  WriteLoc = WriteLoc
  MaxFaults = 2
  PowerLoss = FALSE
  Nil = Nil
INVARIANTS
  BlocksReadable
  FilesSound
