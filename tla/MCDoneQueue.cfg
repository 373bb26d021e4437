SPECIFICATION FairSpecAll
CONSTANTS
  Producers = {p1, p2, p3}
  Poster = p1
  Nodes = {n1, n2, n3}
  NULL = NULL
  MaxPush = 3
CHECK_DEADLOCK FALSE
INVARIANTS DoneQueueInv
PROPERTIES FollowsContract EveryNodeComesOut
