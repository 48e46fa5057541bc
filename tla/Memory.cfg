CONSTANTS
  k1 = k1
  k2 = k2
  p1 = p1
  p2 = p2
  NoTask = NoTask
  Kernel = Kernel
  KThreads = {k1, k2}
  Procs = {p1, p2}
  Starting = {p1, p2}
  Byte = 3
  KLen = 1
  ULen = 1
  LowPages = 1
  UserPages = 4
  PageSize = 8
  ArenaSize = 1
  MinBlock = 2
  DescCnt = 2
  Sizes = {1, 3, 9}
  MaxPages = 1
SPECIFICATION ApartSpec
CHECK_DEADLOCK FALSE
SYMMETRY Symmetric
INVARIANTS MappedOnce MappedIsTaken MappedIsReserved BlocksSound CntExact
