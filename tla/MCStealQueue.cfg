SPECIFICATION Spec
CONSTANTS
  Owner = owner
  Thieves = {s1, s2}
  Wakers = {}
  N = 2
  W = 8
  MaxPush = 5
SYMMETRY ThievesSymmetry
CHECK_DEADLOCK FALSE
INVARIANTS NothingLost EmptyIsHonest
PROPERTIES FollowsContract
