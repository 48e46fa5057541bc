CONSTANTS
  Len = 2
  Byte = 3
  MaxN = 7
SPECIFICATION LiveSpec
INVARIANTS FirstFit OneByteOver
PROPERTY Terminates
