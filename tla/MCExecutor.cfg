SPECIFICATION FairSpec
CONSTANTS
  Runners = {r1}
  Tasks = {a, b, c}
  a = a
  b = b
  c = c
  Main = main
  None = None
  Kid <- Family
  MainOnRunner = TRUE
  MainRepolls = FALSE
  MayDrop = TRUE
CHECK_DEADLOCK FALSE
INVARIANTS TaskInv
PROPERTIES Progress
