SPECIFICATION FairSession
CONSTANTS
  Policy = "Summarize"
  KeepHead = 0
  KeepTail = 1
  Primed = 0
  Limits = {3, 5}
  Reports = {2}
  MaxIds = 4
CHECK_DEADLOCK FALSE
 
PROPERTIES NothingForgotten LatestTurnsKept EveryInputSettles
