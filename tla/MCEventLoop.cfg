SPECIFICATION FairSpec
CONSTANTS
  p1 = p1
  j1 = j1
  j2 = j2
  t1 = t1
  t2 = t2
  s1 = s1
  s2 = s2
  Callers = {c1}
  Workers = {k1}
  Posts = {p1}
  Jobs = {j1, j2}
  Timers = {t1, t2}
  Sources = {s1, s2}
  Programs <- MCPrograms
  WAKE = WAKE
  NULL = NULL
  MaxStops = 1
  SubmitElsewhere = FALSE
CHECK_DEADLOCK FALSE
INVARIANTS LoopInv
PROPERTIES Progress
