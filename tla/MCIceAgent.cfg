CONSTANTS
  Hosts = {h1}
  Servers = {s1, s2}
  Signalled <- MCSignalled
  Strangers = {"g"}
  Guess = "g"
  Predicted = 1
  MaxCandidates = 2
  MaxPairs = 3
  MaxTxns = 2
  SprayBatch = 1
  Renegotiate = FALSE
  Patient = TRUE
  Careful = TRUE
SPECIFICATION FairIce
INVARIANTS AgentInv AnswersCreditTheirPair
PROPERTIES PhasesEnd ReportsPhases
CHECK_DEADLOCK FALSE
