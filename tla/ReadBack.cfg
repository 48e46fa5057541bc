CONSTANTS
  w = w
  r = r
  Writer = w
  Readers = {r}
  BlockSize = 2
  MaxDirect = 2
  NBlocks = 4
  BitsPerSector = 2
  MaxCount = 3
  Wrap = 64
SPECIFICATION Spec
CHECK_DEADLOCK FALSE
INVARIANT ReadBack
