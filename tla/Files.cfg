CONSTANTS
  k1 = k1
  p1 = p1
  p2 = p2
  p3 = p3
  NoTask = NoTask
  Null = Null
  KThreads = {}
  Procs = {p1, p2, p3}
  Children = {p3}
  Names = {1, 2}
  Flags = {"r", "w"}
  MaxFileOpen = 6
  MaxPerProc = 4
  DataStart = 10
  MaxCreate = 1
SPECIFICATION Spec
CHECK_DEADLOCK FALSE
INVARIANTS  InodeLive 
