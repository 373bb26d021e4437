CONSTANTS
  e1 = e1
  e2 = e2
  Execs = {e1, e2}
  None = None
  Runs <- MixedRuns
  Confs <- Mixed
  FastConfs <- MixedFast
  Thief = TRUE
  Careful = TRUE
SPECIFICATION Spec
INVARIANTS ExecutorInv TimersOfBusy ResultHolds ReapedUnlessCutShort
CHECK_DEADLOCK FALSE
PROPERTIES CommandEnds
