CONSTANTS
  main = main
  ta = ta
  pa = pa
  pb = pb
  Isr = Isr
  NoTask = NoTask
  Main = main
  Threads = {main}
  Procs = {pb}
  Isrs = {Isr}
  Spinners = {pb}
  Sleepers = {main}
  Priority <- Slices
  Locks = {1, 2}
  Sems = {2}
  MaxNest = 1
  SleepTicks = 1
  IoTasks = {main}
  ChanLock = 1
  DiskDone = 2
  MaxOp = 2
  MaxSec = 1
  MayStall = FALSE
SPECIFICATION IdeLiveSpec
PROPERTY RequestEnds
