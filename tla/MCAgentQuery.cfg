SPECIFICATION FairSpec
CONSTANTS
  Calls = {a, b, g, u}
  Guarded = {g}
  Unknown = {u}
  NoCall = NoCall
  MaxRuns = 2
  MaxBatch = 2
  MaxTurns = 2
  SyncResolve = FALSE
  CallbackCancel = TRUE
  CancelWhileConfirming = FALSE
CHECK_DEADLOCK FALSE
INVARIANTS OneReport NeverStranded ResolverOwned RoundAnswersCalls
PROPERTIES FollowsContract CancelWins EveryRunEnds
