CONSTANTS
  k1 = k1
  k2 = k2
  p1 = p1
  p2 = p2
  NoTask = NoTask
  Kernel = Kernel
  KThreads = {k1}
  Procs = {p1}
  Starting = {p1}
  Byte = 2
  KLen = 2
  ULen = 2
  LowPages = 1
  UserPages = 4
  PageSize = 8
  ArenaSize = 1
  MinBlock = 2
  DescCnt = 2
  Sizes = {1}
  MaxPages = 1
SPECIFICATION Spec
CHECK_DEADLOCK FALSE
INVARIANT MappedOnce
