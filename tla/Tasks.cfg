CONSTANTS
  main = main
  a = a
  b = b
  c = c
  d = d
  Main = main
  New = {a, b, c, d}
  NoTask = NoTask
  Totals = {6, 9, 12, 24}
  MapPages = 2
  CopyPages = 1
  MaxFailures = 2
  NameLens = {5, 9}
SPECIFICATION Spec
CHECK_DEADLOCK FALSE
SYMMETRY Symmetric
INVARIANTS PidsUnique PagesReachable StartsWhole
