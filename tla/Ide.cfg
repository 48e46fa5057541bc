CONSTANTS
  main = main
  ta = ta
  pa = pa
  pb = pb
  Isr = Isr
  NoTask = NoTask
  Main = main
  Threads = {main}
  Procs = {pa, pb}
  Isrs = {Isr}
  Spinners = {pb}
  Sleepers = {main, pa}
  Priority <- Slices
  Locks = {1, 2}
  Sems = {2}
  MaxNest = 1
  SleepTicks = 1
  IoTasks = {main, pa}
  ChanLock = 1
  DiskDone = 2
  MaxOp = 2
  MaxSec = 3
  MayStall = TRUE
SPECIFICATION IdeSpec
INVARIANTS TransferIsOwn DriveNotOverrun RequestExact
