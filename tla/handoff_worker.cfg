SPECIFICATION Spec
CONSTANTS
  Worker = worker
  Threads = {worker}
  NumDestinations = 2
  Keys <- EffectKeys
  MaxOutages = 1
  MaxRestarts = 1
  MaxSends = 2
  MaxRevision = 2
INVARIANTS NeverSecondSend ReviewClosesLast
PROPERTIES EffectIsLearned
CHECK_DEADLOCK FALSE
