CONSTANTS
  e1 = e1
  e2 = e2
  Execs = {e1, e2}
  None = None
  Runs <- OneEach
  Confs <- Tools
  FastConfs = {}
  Thief = FALSE
  Careful = TRUE
SPECIFICATION Spec
INVARIANTS EachIsReaped
CHECK_DEADLOCK FALSE
