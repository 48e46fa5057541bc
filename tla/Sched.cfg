CONSTANTS
  main = main
  ta = ta
  pa = pa
  pb = pb
  NoTask = NoTask
  Main = main
  Isrs = {}
  Sems = {}
  Priority <- Slices
  Threads = {main, ta}
  Procs = {pa, pb}
  Spinners = {pb}
  Locks = {1}
  MaxNest = 2
  SleepTicks = 1
  Sleepers = {pa}
SPECIFICATION LiveSpec
INVARIANTS MutualExclusion OneList NoTaskLost RunningTask OnlyUnblockAssertFails
PROPERTIES ImplementsMutex ReadyRuns SleepEnds
