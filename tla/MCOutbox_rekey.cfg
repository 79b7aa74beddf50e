SPECIFICATION Spec
CONSTANTS
  a1 = a1
  a2 = a2
  w1 = w1
  w2 = w2
  NoAction = NoAction
  Free = Free
  Actions = {a1}
  Workers = {w1}
  Kind <- OneFiling
  Fallback <- NoFallback
  ApudVersion = 2
  MaxRetries = 3
  MaxAttempts = 4
  MaxVersion = 1
  MaxStep = 0
  MaxCycle = 0
  MaxLosses = 0
  MaxCrashes = 0
  MaxFaults = 0
  MaxStalls = 0
  MaxRekeys = 1
INVARIANTS FailureIsCertain
CHECK_DEADLOCK FALSE
