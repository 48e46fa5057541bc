CONSTANTS
  ByteBits = 4
  SectorBits = 8
  InodeBitmapSects = 1
  InodeTableSects = 2
  NDisks = 2
  TableLen = 3
  MaxLogic = 2
  ExtStart = 10
  Layouts <- MCLayouts
  Sizes = {11}
  MaxBoots = 2
SPECIFICATION LiveSpec
CHECK_DEADLOCK FALSE
INVARIANTS ScanExact HaltExplained MountedWhole OfferedInside
PROPERTIES FormatOnce 
