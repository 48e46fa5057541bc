CONSTANTS
  n1 = n1
  n2 = n2
  n3 = n3
  n4 = n4
  Names = {n1, n2, n3, n4}
  PerBlock = 4
  MaxDirect = 1
  NBlocks = 7
  DataStart = 9
  SlotMod = 7
  BitsPerSector = 15
  MaxBoots = 2
SPECIFICATION Spec
CHECK_DEADLOCK FALSE
SYMMETRY Symmetric
INVARIANTS UniqueNames LossExplained DirBlocksTaken
