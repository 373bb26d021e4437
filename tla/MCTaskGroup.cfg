CONSTANTS
  Workers = {w1, w2}
  Clients = {c1, c2}
  Tasks = {t1, t2, t3}
  None = None
  QueueCap = 2
  MaySpawnFail = TRUE
  Disciplined = TRUE
SPECIFICATION Spec
INVARIANTS GroupInv NobodyOversleeps
PROPERTIES CancelHonest CallsReturn
CHECK_DEADLOCK FALSE
